---------------------------- MODULE Spec2Model ----------------------------
(***************************************************************************)
(* Recurrence date arithmetic of the Simple Chores integration             *)
(* (custom_components/simple_chores/coordinator.py).                       *)
(*                                                                         *)
(* A date is its proleptic Gregorian ordinal (datetime.date.toordinal():   *)
(* 0001-01-01 is day 1), so that date comparison is integer comparison and *)
(* `date + timedelta(days=k)` is integer addition.  Year, month and day    *)
(* are recovered with the standard library's own ordinal arithmetic.       *)
(***************************************************************************)
EXTENDS Integers, Sequences, FiniteSets, TLC

(***************************************************************************)
(* Bounds of the model.                                                    *)
(***************************************************************************)
\* Number of consecutive reference dates explored, starting at FirstDate.
NumDates == 100
\* Largest value of a chore's `interval` field (and of a week interval).
MaxInterval == 2

(***************************************************************************)
(* Python values.                                                          *)
(***************************************************************************)
\* Python None in an optional integer position (every real value is >= 0).
None == -1
\* Python None in an optional string position.
NoneStr == "None"
\* Python None in an optional list position (a list is the set of its items).
NoneList == { None }
\* Python None where an ISO date string is expected.
NoneIso == << >>

(***************************************************************************)
(* const.py                                                                *)
(***************************************************************************)
FREQUENCY_ONCE == "once"
FREQUENCY_DAILY == "daily"
FREQUENCY_WEEKLY == "weekly"
FREQUENCY_BIWEEKLY == "biweekly"
FREQUENCY_MONTHLY == "monthly"
FREQUENCY_BIMONTHLY == "bimonthly"
FREQUENCY_QUARTERLY == "quarterly"
FREQUENCY_BIANNUAL == "biannual"
FREQUENCY_YEARLY == "yearly"

FREQUENCIES ==
    << FREQUENCY_ONCE, FREQUENCY_DAILY, FREQUENCY_WEEKLY, FREQUENCY_BIWEEKLY,
       FREQUENCY_MONTHLY, FREQUENCY_BIMONTHLY, FREQUENCY_QUARTERLY,
       FREQUENCY_BIANNUAL, FREQUENCY_YEARLY >>

RECURRENCE_INTERVAL == "interval"
RECURRENCE_ANCHORED == "anchored"

ANCHOR_DAY_OF_MONTH == "day_of_month"
ANCHOR_WEEK_PATTERN == "week_pattern"

WEEK_FIRST == 1
WEEK_LAST == 5
WEEK_ORDINALS == WEEK_FIRST .. WEEK_LAST

WEEKDAY_SUNDAY == 0
WEEKDAY_SATURDAY == 6
WEEKDAYS == WEEKDAY_SUNDAY .. WEEKDAY_SATURDAY

RECURRENCE_TYPES == { RECURRENCE_INTERVAL, RECURRENCE_ANCHORED }
ANCHOR_TYPES == { ANCHOR_DAY_OF_MONTH, ANCHOR_WEEK_PATTERN }

MAX_CHORE_NAME_LENGTH == 100

(***************************************************************************)
(* datetime / calendar: ordinal arithmetic of the standard library.        *)
(***************************************************************************)
\* calendar.isleap
IsLeap(year) ==
    year % 4 = 0 /\ (year % 100 # 0 \/ year % 400 = 0)

\* calendar.monthrange(year, month)[1]
DaysInMonth(year, month) ==
    IF month = 2
    THEN (IF IsLeap(year) THEN 29 ELSE 28)
    ELSE << 31, 28, 31, 30, 31, 30, 31, 31, 30, 31, 30, 31 >>[month]

\* Days of `year` before the first day of `month`.
DaysBeforeMonth(year, month) ==
    << 0, 31, 59, 90, 120, 151, 181, 212, 243, 273, 304, 334 >>[month]
        + (IF month > 2 /\ IsLeap(year) THEN 1 ELSE 0)

\* Days before January 1st of `year`.
DaysBeforeYear(year) ==
    LET y == year - 1
    IN  y * 365 + (y \div 4) - (y \div 100) + (y \div 400)

\* date(year, month, day)
Date(year, month, day) ==
    DaysBeforeYear(year) + DaysBeforeMonth(year, month) + day

\* date.fromordinal: the <<year, month, day>> of an ordinal.
Ymd(ordinal) ==
    LET n0   == ordinal - 1
        n400 == n0 \div 146097
        r400 == n0 % 146097
        n100 == r400 \div 36524
        r100 == r400 % 36524
        n4   == r100 \div 1461
        r4   == r100 % 1461
        n1   == r4 \div 365
        n    == r4 % 365
        year == n400 * 400 + 1 + n100 * 100 + n4 * 4 + n1
        est  == (n + 50) \div 32
        month == IF DaysBeforeMonth(year, est) > n THEN est - 1 ELSE est
    IN  IF n1 = 4 \/ n100 = 4
        THEN << year - 1, 12, 31 >>
        ELSE << year, month, n - DaysBeforeMonth(year, month) + 1 >>

\* date.year, date.month, date.day
Year(d) == Ymd(d)[1]
Month(d) == Ymd(d)[2]
Day(d) == Ymd(d)[3]

\* date.weekday(): Monday = 0 .. Sunday = 6
Weekday(d) == (d + 6) % 7

\* date + timedelta(days=k), date + timedelta(weeks=k)
AddDays(d, k) == d + k
AddWeeks(d, k) == d + 7 * k


(***************************************************************************)
(* dateutil.relativedelta: date + relativedelta(years=.., months=..).      *)
(* The constructor folds months beyond 11 into years; the addition moves   *)
(* year and month and keeps the day, cut to the length of the target month.*)
(***************************************************************************)
RelativeDeltaAdd(d, years, months) ==
    LET dy    == years + (months \div 12)
        dm    == months % 12
        m0    == Month(d) + dm
        year  == Year(d) + dy + (IF m0 > 12 THEN 1 ELSE 0)
        month == IF m0 > 12 THEN m0 - 12 ELSE m0
        dim   == DaysInMonth(year, month)
        day   == IF Day(d) < dim THEN Day(d) ELSE dim
    IN  Date(year, month, day)

\* from_date + relativedelta(months=k)
AddMonths(d, k) == RelativeDeltaAdd(d, 0, k)
\* from_date + relativedelta(years=k)
AddYears(d, k) == RelativeDeltaAdd(d, k, 0)

\* min(a, b)
Min(a, b) == IF a < b THEN a ELSE b

(***************************************************************************)
(* calculate_next_due(from_date, frequency)                                *)
(***************************************************************************)
\* Variant: the `once` test is missing, so once falls through to the end.
calculate_next_due_without_once(from_date, frequency) ==
    CASE frequency = FREQUENCY_DAILY     -> AddDays(from_date, 1)
      [] frequency = FREQUENCY_WEEKLY    -> AddWeeks(from_date, 1)
      [] frequency = FREQUENCY_BIWEEKLY  -> AddWeeks(from_date, 2)
      [] frequency = FREQUENCY_MONTHLY   -> AddMonths(from_date, 1)
      [] frequency = FREQUENCY_BIMONTHLY -> AddMonths(from_date, 2)
      [] frequency = FREQUENCY_QUARTERLY -> AddMonths(from_date, 3)
      [] frequency = FREQUENCY_BIANNUAL  -> AddMonths(from_date, 6)
      [] frequency = FREQUENCY_YEARLY    -> AddYears(from_date, 1)
      [] OTHER                           -> from_date

\* Variant: months counted as 30 days and a year as 365 days.
calculate_next_due_in_days(from_date, frequency) ==
    CASE frequency = FREQUENCY_ONCE      -> None
      [] frequency = FREQUENCY_DAILY     -> AddDays(from_date, 1)
      [] frequency = FREQUENCY_WEEKLY    -> AddWeeks(from_date, 1)
      [] frequency = FREQUENCY_BIWEEKLY  -> AddWeeks(from_date, 2)
      [] frequency = FREQUENCY_MONTHLY   -> AddDays(from_date, 30)
      [] frequency = FREQUENCY_BIMONTHLY -> AddDays(from_date, 60)
      [] frequency = FREQUENCY_QUARTERLY -> AddDays(from_date, 90)
      [] frequency = FREQUENCY_BIANNUAL  -> AddDays(from_date, 180)
      [] frequency = FREQUENCY_YEARLY    -> AddDays(from_date, 365)
      [] OTHER                           -> from_date

calculate_next_due(from_date, frequency) ==
    CASE frequency = FREQUENCY_ONCE      -> None
      [] frequency = FREQUENCY_DAILY     -> AddDays(from_date, 1)
      [] frequency = FREQUENCY_WEEKLY    -> AddWeeks(from_date, 1)
      [] frequency = FREQUENCY_BIWEEKLY  -> AddWeeks(from_date, 2)
      [] frequency = FREQUENCY_MONTHLY   -> AddMonths(from_date, 1)
      [] frequency = FREQUENCY_BIMONTHLY -> AddMonths(from_date, 2)
      [] frequency = FREQUENCY_QUARTERLY -> AddMonths(from_date, 3)
      [] frequency = FREQUENCY_BIANNUAL  -> AddMonths(from_date, 6)
      [] frequency = FREQUENCY_YEARLY    -> AddYears(from_date, 1)
      [] OTHER                           -> from_date

(***************************************************************************)
(* get_week_bounds(for_date): <<week_start, week_end>>                     *)
(***************************************************************************)
\* Variant: the week taken to start on Monday (weekday() used unadjusted).
get_week_bounds_from_monday(for_date) ==
    LET days_since_sunday == Weekday(for_date)
        week_start        == AddDays(for_date, 0 - days_since_sunday)
        week_end          == AddDays(week_start, 6)
    IN  << week_start, week_end >>

get_week_bounds(for_date) ==
    LET days_since_sunday == (Weekday(for_date) + 1) % 7
        week_start        == AddDays(for_date, 0 - days_since_sunday)
        week_end          == AddDays(week_start, 6)
    IN  << week_start, week_end >>

(***************************************************************************)
(* get_nth_weekday_of_month(year, month, weekday, n)                       *)
(* weekday is 0 = Sunday .. 6 = Saturday; the result is a date or None.    *)
(***************************************************************************)
\* Variant: the weekday code is used as Python's (Monday = 0) unconverted.
get_nth_weekday_of_month_unconverted(year, month, weekday, n) ==
    LET python_weekday == weekday % 7
        first_day      == Date(year, month, 1)
        days_in_month  == DaysInMonth(year, month)
        last_day       == Date(year, month, days_in_month)
        days_back      == (Weekday(last_day) - python_weekday) % 7
        days_ahead     == (python_weekday - Weekday(first_day)) % 7
        first_occurrence == AddDays(first_day, days_ahead)
        result         == AddWeeks(first_occurrence, n - 1)
    IN  IF n = WEEK_LAST
        THEN AddDays(last_day, 0 - days_back)
        ELSE IF Month(result) # month THEN None ELSE result

\* Variant: n weeks, not n - 1, are added to the first occurrence.
get_nth_weekday_of_month_weeks_n(year, month, weekday, n) ==
    LET python_weekday == (weekday - 1) % 7
        first_day      == Date(year, month, 1)
        days_in_month  == DaysInMonth(year, month)
        last_day       == Date(year, month, days_in_month)
        days_back      == (Weekday(last_day) - python_weekday) % 7
        days_ahead     == (python_weekday - Weekday(first_day)) % 7
        first_occurrence == AddDays(first_day, days_ahead)
        result         == AddWeeks(first_occurrence, n)
    IN  IF n = WEEK_LAST
        THEN AddDays(last_day, 0 - days_back)
        ELSE IF Month(result) # month THEN None ELSE result

\* Variant: without the `n == WEEK_LAST` branch, 5 is the fifth from the start.
get_nth_weekday_of_month_fifth_from_start(year, month, weekday, n) ==
    LET python_weekday == (weekday - 1) % 7
        first_day      == Date(year, month, 1)
        days_ahead     == (python_weekday - Weekday(first_day)) % 7
        first_occurrence == AddDays(first_day, days_ahead)
        result         == AddWeeks(first_occurrence, n - 1)
    IN  IF Month(result) # month THEN None ELSE result

get_nth_weekday_of_month(year, month, weekday, n) ==
    LET python_weekday == (weekday - 1) % 7
        first_day      == Date(year, month, 1)
        days_in_month  == DaysInMonth(year, month)
        last_day       == Date(year, month, days_in_month)
        days_back      == (Weekday(last_day) - python_weekday) % 7
        days_ahead     == (python_weekday - Weekday(first_day)) % 7
        first_occurrence == AddDays(first_day, days_ahead)
        result         == AddWeeks(first_occurrence, n - 1)
    IN  IF n = WEEK_LAST
        THEN AddDays(last_day, 0 - days_back)
        ELSE IF Month(result) # month THEN None ELSE result

(***************************************************************************)
(* calculate_next_anchored_weekly(from_date, anchor_days, interval)        *)
(* anchor_days is given as the set of its elements: the function sorts the *)
(* list and then reads only the order of the values.                       *)
(***************************************************************************)
\* Variant: the anchor days in descending order.
RECURSIVE sorted_descending(_)
sorted_descending(days) ==
    IF days = {}
    THEN << >>
    ELSE LET most == CHOOSE x \in days : \A y \in days : x >= y
         IN  << most >> \o sorted_descending(days \ {most})

\* sorted(anchor_days)
RECURSIVE sorted(_)
sorted(days) ==
    IF days = {}
    THEN << >>
    ELSE LET least == CHOOSE x \in days : \A y \in days : x <= y
         IN  << least >> \o sorted(days \ {least})

\* for day in sorted_days: if day > current_dow: return day
\* (the first such day from position i on; None when the loop falls through)
\* Variant: `day >= current_dow`, an anchor on the reference weekday counts.
RECURSIVE FirstDayNotEarlier(_, _, _)
FirstDayNotEarlier(sorted_days, current_dow, i) ==
    IF i > Len(sorted_days)
    THEN None
    ELSE IF sorted_days[i] >= current_dow
         THEN sorted_days[i]
         ELSE FirstDayNotEarlier(sorted_days, current_dow, i + 1)

RECURSIVE FirstLaterDay(_, _, _)
FirstLaterDay(sorted_days, current_dow, i) ==
    IF i > Len(sorted_days)
    THEN None
    ELSE IF sorted_days[i] > current_dow
         THEN sorted_days[i]
         ELSE FirstLaterDay(sorted_days, current_dow, i + 1)

\* Variant: without `or 7`, a Sunday is 0 days from the next Sunday.
days_until_sunday_or_zero(current_dow) ==
    (7 - current_dow) % 7

\* days_until_sunday = (7 - current_dow) % 7 or 7
days_until_sunday(current_dow) ==
    IF (7 - current_dow) % 7 = 0 THEN 7 ELSE (7 - current_dow) % 7

calculate_next_anchored_weekly(from_date, anchor_days, interval) ==
    IF anchor_days = {} \/ anchor_days = NoneList
    THEN AddWeeks(from_date, interval)
    ELSE
      LET sorted_days  == sorted(anchor_days)
          current_dow  == (Weekday(from_date) + 1) % 7
          day          == FirstLaterDay(sorted_days, current_dow, 1)
          first_anchor == sorted_days[1]
          days_from_sunday_to_anchor == first_anchor
          extra_weeks  == (interval - 1) * 7
      IN  IF day # None
          THEN AddDays(from_date, day - current_dow)
          ELSE AddDays(from_date,
                       days_until_sunday(current_dow)
                           + days_from_sunday_to_anchor + extra_weeks)

(***************************************************************************)
(* calculate_next_anchored_monthly(from_date, anchor_type,                 *)
(*     anchor_day_of_month, anchor_week, anchor_weekday, months_interval)  *)
(***************************************************************************)
\* while target_date is None and attempts < 12: try the following month
RECURSIVE SearchFollowingMonths(_, _, _, _, _)
SearchFollowingMonths(next_month_date, target_date, attempts, anchor_weekday, anchor_week) ==
    IF target_date = None /\ attempts < 12
    THEN LET next == AddMonths(next_month_date, 1)
         IN  SearchFollowingMonths(
                 next,
                 get_nth_weekday_of_month(Year(next), Month(next),
                                          anchor_weekday, anchor_week),
                 attempts + 1, anchor_weekday, anchor_week)
    ELSE target_date

\* min(target_day, days_in_month) as a date of the month of `in_month`
ClampedDay(in_month, target_day) ==
    Date(Year(in_month), Month(in_month),
         Min(target_day, DaysInMonth(Year(in_month), Month(in_month))))

\* Variant of the day_of_month branch: `target_date >= from_date`.
day_of_month_branch_today_counts(from_date, anchor_day_of_month, months_interval) ==
    LET target_day  == IF anchor_day_of_month = None \/ anchor_day_of_month = 0
                       THEN 1 ELSE anchor_day_of_month
        target_date == ClampedDay(from_date, target_day)
        next_month_date == AddMonths(from_date, months_interval)
    IN  IF target_date >= from_date
        THEN target_date
        ELSE ClampedDay(next_month_date, target_day)

\* The branch `if anchor_type == ANCHOR_DAY_OF_MONTH`.
day_of_month_branch(from_date, anchor_day_of_month, months_interval) ==
    LET target_day  == IF anchor_day_of_month = None \/ anchor_day_of_month = 0
                       THEN 1 ELSE anchor_day_of_month
        target_date == ClampedDay(from_date, target_day)
        next_month_date == AddMonths(from_date, months_interval)
    IN  IF target_date > from_date
        THEN target_date
        ELSE ClampedDay(next_month_date, target_day)

\* The branch `elif anchor_type == ANCHOR_WEEK_PATTERN`.
week_pattern_branch(from_date, anchor_week, anchor_weekday, months_interval) ==
    IF anchor_week = None \/ anchor_weekday = None
    THEN AddMonths(from_date, months_interval)
    ELSE
      LET target_date == get_nth_weekday_of_month(
                             Year(from_date), Month(from_date),
                             anchor_weekday, anchor_week)
          next_month_date == AddMonths(from_date, months_interval)
          found == SearchFollowingMonths(
                       next_month_date,
                       get_nth_weekday_of_month(
                           Year(next_month_date), Month(next_month_date),
                           anchor_weekday, anchor_week),
                       0, anchor_weekday, anchor_week)
      IN  IF target_date # None /\ target_date > from_date
          THEN target_date
          ELSE IF found # None
               THEN found
               ELSE AddMonths(from_date, months_interval)

calculate_next_anchored_monthly(from_date, anchor_type, anchor_day_of_month, anchor_week, anchor_weekday, months_interval) ==
    IF anchor_type = ANCHOR_DAY_OF_MONTH
    THEN day_of_month_branch(from_date, anchor_day_of_month, months_interval)
    ELSE IF anchor_type = ANCHOR_WEEK_PATTERN
    THEN week_pattern_branch(from_date, anchor_week, anchor_weekday, months_interval)
    ELSE AddMonths(from_date, months_interval)

(***************************************************************************)
(* calculate_next_due_for_chore(chore, from_date)                          *)
(* A chore is a record holding the keys that are present in the dict.      *)
(***************************************************************************)
\* chore.get(key, default)
Get(chore, key, default) ==
    IF key \in DOMAIN chore THEN chore[key] ELSE default

\* Variant: quarterly taken as four months.
months_map_quarter_of_four(frequency) ==
    CASE frequency = FREQUENCY_MONTHLY   -> 1
      [] frequency = FREQUENCY_BIMONTHLY -> 2
      [] frequency = FREQUENCY_QUARTERLY -> 4
      [] frequency = FREQUENCY_BIANNUAL  -> 6
      [] OTHER                           -> 1

\* months_map.get(frequency, 1)
months_map(frequency) ==
    CASE frequency = FREQUENCY_MONTHLY   -> 1
      [] frequency = FREQUENCY_BIMONTHLY -> 2
      [] frequency = FREQUENCY_QUARTERLY -> 3
      [] frequency = FREQUENCY_BIANNUAL  -> 6
      [] OTHER                           -> 1

\* week_interval = 2 if frequency == FREQUENCY_BIWEEKLY else interval
week_interval(frequency, interval) ==
    IF frequency = FREQUENCY_BIWEEKLY THEN 2 ELSE interval

\* Variant: only recurrence_type = interval takes the interval calculation.
calculate_next_due_for_chore_interval_only(chore, from_date) ==
    LET frequency       == Get(chore, "frequency", FREQUENCY_WEEKLY)
        recurrence_type == Get(chore, "recurrence_type", RECURRENCE_INTERVAL)
        interval        == Get(chore, "interval", 1)
    IN  IF frequency = FREQUENCY_ONCE
        THEN None
        ELSE IF recurrence_type = RECURRENCE_INTERVAL
        THEN calculate_next_due(from_date, frequency)
        ELSE IF frequency \in {FREQUENCY_WEEKLY, FREQUENCY_BIWEEKLY}
        THEN calculate_next_anchored_weekly(
                 from_date,
                 Get(chore, "anchor_days_of_week", {}),
                 week_interval(frequency, interval))
        ELSE IF frequency \in {FREQUENCY_MONTHLY, FREQUENCY_BIMONTHLY,
                               FREQUENCY_QUARTERLY, FREQUENCY_BIANNUAL}
        THEN calculate_next_anchored_monthly(
                 from_date,
                 Get(chore, "anchor_type", ANCHOR_DAY_OF_MONTH),
                 Get(chore, "anchor_day_of_month", None),
                 Get(chore, "anchor_week", None),
                 Get(chore, "anchor_weekday", None),
                 months_map(frequency) * interval)
        ELSE IF frequency = FREQUENCY_YEARLY
        THEN calculate_next_anchored_monthly(
                 from_date,
                 Get(chore, "anchor_type", ANCHOR_DAY_OF_MONTH),
                 Get(chore, "anchor_day_of_month", None),
                 Get(chore, "anchor_week", None),
                 Get(chore, "anchor_weekday", None),
                 12 * interval)
        ELSE calculate_next_due(from_date, frequency)

calculate_next_due_for_chore(chore, from_date) ==
    LET frequency       == Get(chore, "frequency", FREQUENCY_WEEKLY)
        recurrence_type == Get(chore, "recurrence_type", RECURRENCE_INTERVAL)
        interval        == Get(chore, "interval", 1)
    IN  IF frequency = FREQUENCY_ONCE
        THEN None
        ELSE IF recurrence_type # RECURRENCE_ANCHORED
        THEN calculate_next_due(from_date, frequency)
        ELSE IF frequency \in {FREQUENCY_WEEKLY, FREQUENCY_BIWEEKLY}
        THEN calculate_next_anchored_weekly(
                 from_date,
                 Get(chore, "anchor_days_of_week", {}),
                 week_interval(frequency, interval))
        ELSE IF frequency \in {FREQUENCY_MONTHLY, FREQUENCY_BIMONTHLY,
                               FREQUENCY_QUARTERLY, FREQUENCY_BIANNUAL}
        THEN calculate_next_anchored_monthly(
                 from_date,
                 Get(chore, "anchor_type", ANCHOR_DAY_OF_MONTH),
                 Get(chore, "anchor_day_of_month", None),
                 Get(chore, "anchor_week", None),
                 Get(chore, "anchor_weekday", None),
                 months_map(frequency) * interval)
        ELSE IF frequency = FREQUENCY_YEARLY
        THEN calculate_next_anchored_monthly(
                 from_date,
                 Get(chore, "anchor_type", ANCHOR_DAY_OF_MONTH),
                 Get(chore, "anchor_day_of_month", None),
                 Get(chore, "anchor_week", None),
                 Get(chore, "anchor_weekday", None),
                 12 * interval)
        ELSE calculate_next_due(from_date, frequency)

(***************************************************************************)
(* Inputs explored.                                                        *)
(***************************************************************************)
\* The reference dates: NumDates consecutive days from 2023-12-25, a span
\* with a year change, a leap February and months of 29, 30 and 31 days.
FirstDate == Date(2023, 12, 25)
Dates == FirstDate .. (FirstDate + NumDates - 1)

\* A frequency string that is none of FREQUENCIES.
UnknownFrequency == "fortnightly"
FrequencyInputs == { FREQUENCIES[i] : i \in DOMAIN FREQUENCIES } \cup { UnknownFrequency }

\* The intervals a caller passes: 1 .. MaxInterval.
Intervals == 1 .. MaxInterval
\* months_interval as the dispatcher forms it: 1, 2, 3, 6 or 12 times interval.
MonthsIntervals == { k * i : k \in {1, 2, 3, 6, 12}, i \in Intervals }

(***************************************************************************)
(* State: one call of one of the functions on a reference date.            *)
(***************************************************************************)
VARIABLES
    pc,         \* "ready" before the call, "returned" after it
    from_date,  \* the reference date
    call,       \* the function called, its other arguments and its locals
    result,     \* the value returned (a date, or None)
    chores,     \* SimpleChoresStore._data["chores"]: chore id -> chore dict
    history,    \* SimpleChoresStore._data["history"]
    today,      \* date.today()
    rooms,      \* SimpleChoresStore._data["rooms"]: room id -> room dict
    areas,      \* the area registry of the host: area id -> area name
    room_name_cache,  \* SimpleChoresCoordinator._room_name_cache
    persisted,  \* the data last written by Store.async_save
    dirty,      \* SimpleChoresStore._dirty
    save_task,  \* SimpleChoresStore._save_task: the position of _delayed_save
    writing     \* the calls of Store.async_save that have not returned, oldest first

vars == << pc, from_date, call, result, chores, history, today, rooms, areas,
           room_name_cache, persisted, dirty, save_task, writing >>

\* The rooms known to the coordinator and its cache of their names.
room_vars == << rooms, areas, room_name_cache >>

\* The state of the save logic.
save_vars == << persisted, dirty, save_task, writing >>

\* The store, the clock and the host, which the date functions neither read
\* nor write.
store_vars == << chores, history, today, room_vars, save_vars >>

NoCall == [ fn |-> "none" ]

\* A dict without keys.  The None that _invalidate_room_cache assigns to
\* the cache is written as this dict too: the cache is only ever tested
\* with "not", which holds of both.
NoKeys == [ k \in {} |-> None ]

\* The areas of the host when the integration is set up.
Areas0 == [ kitchen |-> "Kitchen" ]

\* self._data, as far as the operations modelled read or write it.
StoreData(chores_, history_, rooms_) ==
    [ chores |-> chores_, history |-> history_, rooms |-> rooms_ ]

\* _save_task is None; no call of Store.async_save is suspended.
NoTask == "None"
NoWrite == << >>

\* SimpleChoresStore.__init__ and SimpleChoresCoordinator.__init__
HostInit ==
    /\ rooms = NoKeys
    /\ areas = Areas0
    /\ room_name_cache = NoKeys
    /\ persisted = StoreData(NoKeys, << >>, NoKeys)
    /\ dirty = FALSE
    /\ save_task = NoTask
    /\ writing = NoWrite

Init ==
    /\ pc = "ready"
    /\ from_date \in Dates
    /\ call = NoCall
    /\ result = None
    /\ chores = NoKeys
    /\ history = << >>
    /\ today = from_date
    /\ HostInit

\* calculate_next_due(from_date, frequency)
CallCalculateNextDue ==
    /\ pc = "ready"
    /\ \E frequency \in FrequencyInputs :
          /\ call' = [ fn |-> "calculate_next_due", frequency |-> frequency ]
          /\ result' = calculate_next_due(from_date, frequency)
    /\ pc' = "returned"
    /\ UNCHANGED << from_date, store_vars >>

\* calculate_next_anchored_weekly(from_date, anchor_days, interval)
CallAnchoredWeekly ==
    /\ pc = "ready"
    /\ \E anchor_days \in SUBSET WEEKDAYS, interval \in Intervals :
          /\ call' = [ fn |-> "calculate_next_anchored_weekly",
                       anchor_days |-> anchor_days, interval |-> interval ]
          /\ result' = calculate_next_anchored_weekly(from_date, anchor_days, interval)
    /\ pc' = "returned"
    /\ UNCHANGED << from_date, store_vars >>

\* The anchor arguments of calculate_next_anchored_monthly that are explored:
\* day_of_month with every day (or none), week_pattern with every ordinal and
\* weekday (or none), and an anchor_type that is neither.
MonthlyAnchorArgs ==
    { [ anchor_type |-> ANCHOR_DAY_OF_MONTH, anchor_day_of_month |-> d,
        anchor_week |-> None, anchor_weekday |-> None ] : d \in {None} \cup (1 .. 31) }
    \cup
    { [ anchor_type |-> ANCHOR_WEEK_PATTERN, anchor_day_of_month |-> None,
        anchor_week |-> w, anchor_weekday |-> wd ] :
          w \in {None} \cup WEEK_ORDINALS, wd \in {None} \cup WEEKDAYS }
    \cup
    { [ anchor_type |-> NoneStr, anchor_day_of_month |-> None,
        anchor_week |-> None, anchor_weekday |-> None ] }

\* calculate_next_anchored_monthly(from_date, anchor_type, anchor_day_of_month,
\*                                 anchor_week, anchor_weekday, months_interval)
CallAnchoredMonthly ==
    /\ pc = "ready"
    /\ \E a \in MonthlyAnchorArgs, months_interval \in MonthsIntervals :
          /\ call' = [ fn |-> "calculate_next_anchored_monthly",
                       anchor_type |-> a.anchor_type,
                       anchor_day_of_month |-> a.anchor_day_of_month,
                       anchor_week |-> a.anchor_week,
                       anchor_weekday |-> a.anchor_weekday,
                       months_interval |-> months_interval ]
          /\ result' = calculate_next_anchored_monthly(
                           from_date, a.anchor_type, a.anchor_day_of_month,
                           a.anchor_week, a.anchor_weekday, months_interval)
    /\ pc' = "returned"
    /\ UNCHANGED << from_date, store_vars >>

\* get_week_bounds(for_date), for_date the reference date
CallGetWeekBounds ==
    /\ pc = "ready"
    /\ call' = [ fn |-> "get_week_bounds" ]
    /\ result' = get_week_bounds(from_date)
    /\ pc' = "returned"
    /\ UNCHANGED << from_date, store_vars >>

\* The years of the months asked of get_nth_weekday_of_month: the year of
\* FirstDate, which is not a leap year, and the leap year after it.
Years == { Year(FirstDate), Year(FirstDate) + 1 }
\* The ordinals asked: 1 .. 4, 5 for last, and one below and one above.
OrdinalInputs == (WEEK_FIRST - 1) .. (WEEK_LAST + 1)

\* get_nth_weekday_of_month(year, month, weekday, n)
CallGetNthWeekdayOfMonth ==
    /\ pc = "ready"
    /\ \E year \in Years, month \in 1 .. 12, weekday \in WEEKDAYS, n \in OrdinalInputs :
          /\ call' = [ fn |-> "get_nth_weekday_of_month", year |-> year,
                       month |-> month, weekday |-> weekday, n |-> n ]
          /\ result' = get_nth_weekday_of_month(year, month, weekday, n)
    /\ pc' = "returned"
    /\ UNCHANGED << from_date, store_vars >>

(***************************************************************************)
(* The chore dicts handed to calculate_next_due_for_chore.  A key that is  *)
(* absent from the dict is absent from the record.                         *)
(***************************************************************************)
FrequencyParts ==
    { [ frequency |-> f ] : f \in FrequencyInputs } \cup { NoKeys }
IntervalParts ==
    { [ interval |-> i ] : i \in Intervals } \cup { NoKeys }
\* recurrence_type: interval, a string that is neither type, or no key.
UnknownRecurrence == "floating"
NotAnchoredParts ==
    { [ recurrence_type |-> r ] : r \in { RECURRENCE_INTERVAL, UnknownRecurrence } }
    \cup { NoKeys }
AnchoredPart == [ recurrence_type |-> RECURRENCE_ANCHORED ]

\* anchor_days_of_week: no key, or up to two weekdays.
WeeklyAnchorParts ==
    { [ anchor_days_of_week |-> A ] :
          A \in { S \in SUBSET WEEKDAYS : Cardinality(S) <= 2 } }
    \cup { NoKeys }

\* anchor_type with the fields of its mode: in range, None, or no key.
MonthlyAnchorParts ==
    { [ anchor_type |-> ANCHOR_DAY_OF_MONTH, anchor_day_of_month |-> d ] :
          d \in {None} \cup (1 .. 31) }
    \cup { [ anchor_day_of_month |-> 15 ], NoKeys }
    \cup { [ anchor_type |-> ANCHOR_WEEK_PATTERN, anchor_week |-> w,
             anchor_weekday |-> wd ] : w \in WEEK_ORDINALS, wd \in WEEKDAYS }
    \cup { [ anchor_type |-> ANCHOR_WEEK_PATTERN, anchor_week |-> None,
             anchor_weekday |-> None ],
           [ anchor_type |-> ANCHOR_WEEK_PATTERN ],
           [ anchor_type |-> NoneStr, anchor_day_of_month |-> None,
             anchor_week |-> None, anchor_weekday |-> None ] }

\* Anchor fields carried by chores whose recurrence does not read them.
StrayAnchorParts ==
    { NoKeys,
      [ anchor_days_of_week |-> {1, 4} ],
      [ anchor_type |-> ANCHOR_DAY_OF_MONTH, anchor_day_of_month |-> 15 ],
      [ anchor_type |-> ANCHOR_WEEK_PATTERN, anchor_week |-> 2, anchor_weekday |-> 2 ] }

WeeklyFamily == { FREQUENCY_WEEKLY, FREQUENCY_BIWEEKLY }
MonthlyFamily == { FREQUENCY_MONTHLY, FREQUENCY_BIMONTHLY, FREQUENCY_QUARTERLY,
                   FREQUENCY_BIANNUAL, FREQUENCY_YEARLY }

Chores ==
    \* not anchored: every frequency, with stray anchor fields
    { f @@ r @@ i @@ a : f \in FrequencyParts, r \in NotAnchoredParts,
                         i \in IntervalParts, a \in StrayAnchorParts }
    \cup
    \* anchored, a frequency with no anchored form
    { [ frequency |-> f ] @@ AnchoredPart @@ i @@ a :
          f \in FrequencyInputs \ (WeeklyFamily \cup MonthlyFamily),
          i \in IntervalParts, a \in StrayAnchorParts }
    \cup
    \* anchored weekly, biweekly, and no frequency key (weekly by default)
    { f @@ AnchoredPart @@ i @@ a :
          f \in { [ frequency |-> x ] : x \in WeeklyFamily } \cup { NoKeys },
          i \in IntervalParts, a \in WeeklyAnchorParts }
    \cup
    \* anchored monthly, bimonthly, quarterly, biannual, yearly
    { [ frequency |-> f ] @@ AnchoredPart @@ i @@ a :
          f \in MonthlyFamily, i \in IntervalParts, a \in MonthlyAnchorParts }

\* calculate_next_due_for_chore(chore, from_date)
CallNextDueForChore ==
    /\ pc = "ready"
    /\ \E chore \in Chores :
          /\ call' = [ fn |-> "calculate_next_due_for_chore", chore |-> chore ]
          /\ result' = calculate_next_due_for_chore(chore, from_date)
    /\ pc' = "returned"
    /\ UNCHANGED << from_date, store_vars >>

Next ==
    \/ CallGetWeekBounds
    \/ CallGetNthWeekdayOfMonth
    \/ CallCalculateNextDue
    \/ CallAnchoredWeekly
    \/ CallAnchoredMonthly
    \/ CallNextDueForChore

Spec == Init /\ [][Next]_vars

(***************************************************************************)
(* The week_pattern branch of calculate_next_anchored_monthly, statement   *)
(* by statement.  Its locals next_month_date, target_date and attempts are *)
(* fields of `call` from the moment they are assigned; pc is "searching"   *)
(* at the head of the while loop.                                          *)
(***************************************************************************)
\* anchor_week as the branch can receive it: None, 1 .. 5, 0 and 6.
AnchorWeekInputs == {None} \cup OrdinalInputs
AnchorWeekdayInputs == {None} \cup WEEKDAYS

\* Variant: `attempts <= 12`.
SearchContinuesOnceMore(target_date, attempts) ==
    target_date = None /\ attempts <= 12

\* while target_date is None and attempts < 12
SearchContinues(target_date, attempts) ==
    target_date = None /\ attempts < 12

\* From the entry of the branch to the head of the loop.
EnterWeekPattern ==
    /\ pc = "ready"
    /\ \E anchor_week \in AnchorWeekInputs, anchor_weekday \in AnchorWeekdayInputs, months_interval \in MonthsIntervals :
          LET args == [ fn |-> "week_pattern", anchor_week |-> anchor_week,
                        anchor_weekday |-> anchor_weekday,
                        months_interval |-> months_interval ]
              target_date == get_nth_weekday_of_month(
                                 Year(from_date), Month(from_date),
                                 anchor_weekday, anchor_week)
              next_month_date == AddMonths(from_date, months_interval)
          IN  IF anchor_week = None \/ anchor_weekday = None
              THEN /\ call' = args
                   /\ result' = AddMonths(from_date, months_interval)
                   /\ pc' = "returned"
              ELSE IF target_date # None /\ target_date > from_date
              THEN /\ call' = args @@ [ target_date |-> target_date ]
                   /\ result' = target_date
                   /\ pc' = "returned"
              ELSE /\ call' = args @@
                          [ next_month_date |-> next_month_date,
                            target_date |-> get_nth_weekday_of_month(
                                Year(next_month_date), Month(next_month_date),
                                anchor_weekday, anchor_week),
                            attempts |-> 0 ]
                   /\ result' = None
                   /\ pc' = "searching"
    /\ UNCHANGED << from_date, store_vars >>

\* One pass of the loop body.
SearchStep ==
    /\ pc = "searching"
    /\ SearchContinues(call.target_date, call.attempts)
    /\ LET next == AddMonths(call.next_month_date, 1)
       IN  call' = [ call EXCEPT
                       !.next_month_date = next,
                       !.target_date = get_nth_weekday_of_month(
                           Year(next), Month(next),
                           call.anchor_weekday, call.anchor_week),
                       !.attempts = @ + 1 ]
    /\ UNCHANGED << pc, from_date, result, store_vars >>

\* return target_date or from_date + relativedelta(months=months_interval)
SearchReturn ==
    /\ pc = "searching"
    /\ ~ SearchContinues(call.target_date, call.attempts)
    /\ result' = IF call.target_date # None
                 THEN call.target_date
                 ELSE AddMonths(from_date, call.months_interval)
    /\ pc' = "returned"
    /\ UNCHANGED << from_date, call, store_vars >>

SearchNext ==
    \/ EnterWeekPattern
    \/ SearchStep
    \/ SearchReturn

SearchSpec == Init /\ [][SearchNext]_vars

(***************************************************************************)
(* str and date methods used by the store.  A str is a TLA+ string; an ISO *)
(* date string 'YYYY-MM-DD' is the tuple <<year, month, day>> of its       *)
(* fields.                                                                 *)
(***************************************************************************)
\* s.startswith(prefix)
startswith(s, prefix) ==
    Len(s) >= Len(prefix) /\ SubSeq(s, 1, Len(prefix)) = prefix

\* s.strip()
RECURSIVE strip(_)
strip(s) ==
    IF Len(s) = 0
    THEN s
    ELSE IF SubSeq(s, 1, 1) = " "
    THEN strip(SubSeq(s, 2, Len(s)))
    ELSE IF SubSeq(s, Len(s), Len(s)) = " "
    THEN strip(SubSeq(s, 1, Len(s) - 1))
    ELSE s

\* The lower-case form of each upper-case letter.
LowerOf ==
    [ A |-> "a", B |-> "b", C |-> "c", D |-> "d", E |-> "e", F |-> "f",
      G |-> "g", H |-> "h", I |-> "i", J |-> "j", K |-> "k", L |-> "l",
      M |-> "m", N |-> "n", O |-> "o", P |-> "p", Q |-> "q", R |-> "r",
      S |-> "s", T |-> "t", U |-> "u", V |-> "v", W |-> "w", X |-> "x",
      Y |-> "y", Z |-> "z" ]

\* The lower-case form of a character.
LowerChar(c) == IF c \in DOMAIN LowerOf THEN LowerOf[c] ELSE c

\* s.lower()
RECURSIVE lower(_)
lower(s) ==
    IF Len(s) = 0
    THEN s
    ELSE LowerChar(SubSeq(s, 1, 1)) \o lower(SubSeq(s, 2, Len(s)))

\* d.isoformat()
isoformat(d) == Ymd(d)

\* date.fromisoformat(s)
fromisoformat(s) == Date(s[1], s[2], s[3])

\* `not s` for a str or None
NotStr(s) == s = NoneStr \/ Len(s) = 0

\* `not l` for a list or None
NotList(l) == l = NoneList \/ l = {}

(***************************************************************************)
(* store.py: SimpleChoresStore, chore operations.                          *)
(* `result` is [raised |-> the exception or NoneStr, value |-> the value   *)
(* returned, NoKeys for None].                                             *)
(***************************************************************************)
Returns(value) == [ raised |-> NoneStr, value |-> value ]
Raises(exception) == [ raised |-> exception, value |-> NoKeys ]

\* _validate_anchor_fields: TRUE when it raises ValueError.
validate_anchor_fields_raises(frequency, anchor_days_of_week, anchor_type, anchor_day_of_month, anchor_week, anchor_weekday) ==
    IF frequency = "weekly" \/ frequency = "biweekly"
    THEN \/ NotList(anchor_days_of_week)
         \/ \E day \in anchor_days_of_week : day \notin WEEKDAYS
    ELSE IF frequency \in { "monthly", "bimonthly", "quarterly", "biannual" }
    THEN \/ NotStr(anchor_type)
         \/ anchor_type \notin ANCHOR_TYPES
         \/ /\ anchor_type = "day_of_month"
            /\ \/ anchor_day_of_month = None
               \/ anchor_day_of_month < 1
               \/ anchor_day_of_month > 31
         \/ /\ anchor_type = "week_pattern"
            /\ \/ anchor_week \notin WEEK_ORDINALS
               \/ anchor_weekday \notin WEEKDAYS
    ELSE FALSE

\* interval = interval or 1
interval_or_1(interval) ==
    IF interval = None \/ interval = 0 THEN 1 ELSE interval

\* add_chore: TRUE when a validation raises ValueError.
add_chore_raises(req) ==
    \/ NotStr(req.name) \/ Len(strip(req.name)) = 0
    \/ Len(strip(req.name)) > MAX_CHORE_NAME_LENGTH
    \/ NotStr(req.room_id) \/ Len(strip(req.room_id)) = 0
    \/ ~ (startswith(req.room_id, "area_") \/ startswith(req.room_id, "custom_"))
    \/ lower(req.frequency) \notin { FREQUENCIES[i] : i \in DOMAIN FREQUENCIES }
    \/ ( IF NotStr(req.recurrence_type) THEN RECURRENCE_INTERVAL
         ELSE req.recurrence_type ) \notin RECURRENCE_TYPES
    \/ /\ req.recurrence_type = "anchored"
       /\ validate_anchor_fields_raises(
              lower(req.frequency), req.anchor_days_of_week, req.anchor_type,
              req.anchor_day_of_month, req.anchor_week, req.anchor_weekday)
    \/ interval_or_1(req.interval) < 1

\* add_chore: the chore dict built when no validation raises.  created_at
\* keeps the date of datetime.now().
add_chore_dict(req, chore_id) ==
    [ id |-> chore_id,
      name |-> req.name,
      room_id |-> req.room_id,
      frequency |-> lower(req.frequency),
      assigned_to |-> req.assigned_to,
      last_completed |-> NoneIso,
      last_completed_by |-> NoneStr,
      next_due |-> isoformat(IF req.start_date = None THEN today
                             ELSE req.start_date),
      created_at |-> isoformat(today),
      is_completed |-> FALSE,
      recurrence_type |-> IF NotStr(req.recurrence_type)
                          THEN RECURRENCE_INTERVAL ELSE req.recurrence_type,
      interval |-> interval_or_1(req.interval),
      anchor_days_of_week |-> req.anchor_days_of_week,
      anchor_type |-> req.anchor_type,
      anchor_day_of_month |-> req.anchor_day_of_month,
      anchor_week |-> req.anchor_week,
      anchor_weekday |-> req.anchor_weekday ]

\* update_chore: TRUE when a validation made before the chore is read
\* raises ValueError.
update_chore_raises_early(req) ==
    \/ /\ req.frequency # NoneStr
       /\ lower(req.frequency) \notin { FREQUENCIES[i] : i \in DOMAIN FREQUENCIES }
    \/ /\ req.room_id # NoneStr
       /\ ~ (startswith(req.room_id, "area_") \/ startswith(req.room_id, "custom_"))
    \/ /\ req.recurrence_type # NoneStr
       /\ req.recurrence_type \notin RECURRENCE_TYPES

\* update_chore: the chore dict when the interval is reached, after the
\* assignments of name, room_id, frequency, next_due, assigned_to and
\* recurrence_type.
\* Variant: assigned_to is written only when its argument is supplied.
update_chore_first_fields_supplied_only(chore, req) ==
    LET named == IF req.name # NoneStr
                 THEN [ name |-> req.name ] @@ chore ELSE chore
        roomed == IF req.room_id # NoneStr
                  THEN [ room_id |-> req.room_id ] @@ named ELSE named
        timed == IF req.frequency # NoneStr
                 THEN [ frequency |-> lower(req.frequency) ] @@ roomed ELSE roomed
        due == IF req.next_due # None
               THEN [ next_due |-> isoformat(req.next_due) ] @@ timed ELSE timed
        assigned == IF req.assigned_to # NoneStr
                    THEN [ assigned_to |-> req.assigned_to ] @@ due ELSE due
    IN  IF req.recurrence_type # NoneStr
        THEN [ recurrence_type |-> req.recurrence_type ] @@ assigned
        ELSE assigned

update_chore_first_fields(chore, req) ==
    LET named == IF req.name # NoneStr
                 THEN [ name |-> req.name ] @@ chore ELSE chore
        roomed == IF req.room_id # NoneStr
                  THEN [ room_id |-> req.room_id ] @@ named ELSE named
        timed == IF req.frequency # NoneStr
                 THEN [ frequency |-> lower(req.frequency) ] @@ roomed ELSE roomed
        due == IF req.next_due # None
               THEN [ next_due |-> isoformat(req.next_due) ] @@ timed ELSE timed
        assigned == [ assigned_to |-> req.assigned_to ] @@ due
    IN  IF req.recurrence_type # NoneStr
        THEN [ recurrence_type |-> req.recurrence_type ] @@ assigned
        ELSE assigned

\* update_chore: the chore dict returned, from the interval on.
update_chore_last_fields(chore, req) ==
    LET spaced == IF req.interval # None
                  THEN [ interval |-> req.interval ] @@ chore ELSE chore
        days == IF req.anchor_days_of_week # NoneList
                THEN [ anchor_days_of_week |-> req.anchor_days_of_week ] @@ spaced
                ELSE spaced
        typed == IF req.anchor_type # NoneStr
                 THEN [ anchor_type |-> req.anchor_type ] @@ days ELSE days
        dom == IF req.anchor_day_of_month # None
               THEN [ anchor_day_of_month |-> req.anchor_day_of_month ] @@ typed
               ELSE typed
        week == IF req.anchor_week # None
                THEN [ anchor_week |-> req.anchor_week ] @@ dom ELSE dom
        weekday == IF req.anchor_weekday # None
                   THEN [ anchor_weekday |-> req.anchor_weekday ] @@ week ELSE week
    IN  weekday @@ [ recurrence_type |-> RECURRENCE_INTERVAL, interval |-> 1 ]

(***************************************************************************)
(* The calls made on the store.                                            *)
(***************************************************************************)
\* date.today() when the store is created.
Today0 == Date(2024, 1, 30)

\* The ids uuid4 hands out, and an id no chore has.
ChoreIds == { "c1" }
MissingId == "c0"

RECURSIVE Repeat(_, _)
Repeat(s, n) == IF n = 0 THEN "" ELSE s \o Repeat(s, n - 1)
\* A name one character longer than allowed.
LongName == Repeat("x", MAX_CHORE_NAME_LENGTH + 1)

\* interval as a caller gives it: None, 0, a negative number, 1 .. MaxInterval.
IntervalInputs == { None, 0, -2 } \cup Intervals

\* The monthly anchor fields given: in range, out of range and missing.
AnchorInputs ==
    { [ anchor_type |-> ANCHOR_DAY_OF_MONTH, anchor_day_of_month |-> d ] :
          d \in { None, 0, 15, 31, 32 } }
    \cup { [ anchor_type |-> ANCHOR_WEEK_PATTERN, anchor_week |-> w[1],
             anchor_weekday |-> w[2] ] :
               w \in { << None, None >>, << 2, 2 >>, << 5, 5 >>, << 6, 2 >>, << 2, 7 >> } }
    \cup { NoKeys, [ anchor_type |-> "bogus" ] }

\* add_chore with every parameter but name, room_id and frequency omitted.
AddDefaults ==
    [ name |-> "Dishes", room_id |-> "area_kitchen", frequency |-> FREQUENCY_WEEKLY,
      start_date |-> None, assigned_to |-> NoneStr, recurrence_type |-> NoneStr,
      anchor_days_of_week |-> NoneList, anchor_type |-> NoneStr,
      anchor_day_of_month |-> None, anchor_week |-> None, anchor_weekday |-> None,
      interval |-> None ]

\* The arguments given to add_chore, as what they add to AddDefaults.
AddParts ==
    { [ name |-> n ] : n \in { "", "   ", LongName } }
    \cup { [ room_id |-> r ] : r \in { "", "kitchen", "custom_a1b2c3d4" } }
    \cup { [ assigned_to |-> "alice" ] }
    \cup { [ frequency |-> f, start_date |-> Today0 - 15 ] :
               f \in { FREQUENCY_ONCE, FREQUENCY_DAILY, FREQUENCY_MONTHLY } }
    \cup { [ frequency |-> f, recurrence_type |-> r ] :
               f \in FrequencyInputs \cup { "Weekly" },
               r \in { NoneStr, RECURRENCE_INTERVAL, UnknownRecurrence } }
    \cup { [ frequency |-> f, interval |-> i ] :
               f \in { FREQUENCY_ONCE, FREQUENCY_WEEKLY, FREQUENCY_MONTHLY },
               i \in IntervalInputs }
    \cup { [ frequency |-> f, recurrence_type |-> RECURRENCE_ANCHORED,
             anchor_days_of_week |-> A, interval |-> i ] :
               f \in WeeklyFamily,
               A \in { NoneList, {}, {1, 4}, {0}, {2, 7} },
               i \in { None, 0, MaxInterval } }
    \cup { [ frequency |-> f, recurrence_type |-> RECURRENCE_ANCHORED,
             interval |-> i ] @@ a :
               f \in MonthlyFamily \ { FREQUENCY_YEARLY }, a \in AnchorInputs,
               i \in { None, MaxInterval } }
    \cup { [ frequency |-> f, recurrence_type |-> RECURRENCE_ANCHORED ] @@ a :
               f \in { FREQUENCY_ONCE, FREQUENCY_DAILY, FREQUENCY_YEARLY },
               a \in { NoKeys, [ anchor_type |-> ANCHOR_DAY_OF_MONTH,
                                 anchor_day_of_month |-> 15 ] } }

AddRequests == { part @@ AddDefaults : part \in AddParts }

\* update_chore with every parameter but chore_id omitted.
UpdateDefaults ==
    [ chore_id |-> "c1", name |-> NoneStr, room_id |-> NoneStr,
      frequency |-> NoneStr, next_due |-> None, assigned_to |-> NoneStr,
      recurrence_type |-> NoneStr, anchor_days_of_week |-> NoneList,
      anchor_type |-> NoneStr, anchor_day_of_month |-> None,
      anchor_week |-> None, anchor_weekday |-> None, interval |-> None ]

\* The arguments given to update_chore, as what they add to UpdateDefaults.
UpdateParts ==
    { [ chore_id |-> MissingId, name |-> "Laundry" ],
      [ name |-> "Laundry" ],
      [ assigned_to |-> "alice" ],
      [ room_id |-> "kitchen", name |-> "Laundry" ],
      [ frequency |-> "Monthly" ],
      [ frequency |-> UnknownFrequency, name |-> "Laundry" ],
      [ recurrence_type |-> RECURRENCE_ANCHORED ],
      [ recurrence_type |-> UnknownRecurrence, name |-> "Laundry" ],
      [ interval |-> 0 ],
      [ interval |-> -2, name |-> "Laundry" ],
      [ interval |-> MaxInterval ],
      [ anchor_week |-> 6 ],
      [ anchor_days_of_week |-> {} ] }

UpdateRequests == { part @@ UpdateDefaults : part \in UpdateParts }

\* The store is empty, no call has been made.
StoreInit ==
    /\ pc = "idle"
    /\ from_date = None
    /\ call = NoCall
    /\ result = Returns(NoKeys)
    /\ chores = NoKeys
    /\ history = << >>
    /\ today = Today0
    /\ HostInit

\* SimpleChoresStore.add_chore(name, room_id, frequency, ...), called while
\* an id is left to hand out.
AddChore ==
    /\ pc = "idle"
    /\ ChoreIds \ DOMAIN chores # {}
    /\ \E req \in AddRequests :
          /\ call' = [ fn |-> "add_chore" ] @@ req
          /\ IF add_chore_raises(req)
             THEN /\ result' = Raises("ValueError")
                  /\ UNCHANGED chores
             ELSE \E chore_id \in ChoreIds \ DOMAIN chores :
                  \E chore \in { add_chore_dict(req, chore_id) } :
                      /\ chores' = chores @@ (chore_id :> chore)
                      /\ result' = Returns(chore)
    /\ UNCHANGED << pc, from_date, history, today, room_vars, save_vars >>

\* SimpleChoresStore.update_chore(chore_id, ...)
UpdateChoreWith(requests) ==
    /\ pc = "idle"
    /\ \E req \in requests :
          /\ call' = [ fn |-> "update_chore" ] @@ req
          /\ IF req.chore_id \notin DOMAIN chores
             THEN /\ result' = Returns(NoKeys)
                  /\ UNCHANGED chores
             ELSE IF update_chore_raises_early(req)
             THEN /\ result' = Raises("ValueError")
                  /\ UNCHANGED chores
             ELSE \E chore \in { update_chore_first_fields(chores[req.chore_id], req) } :
                      IF req.interval # None /\ req.interval < 1
                      THEN /\ chores' = [ chores EXCEPT ![req.chore_id] = chore ]
                           /\ result' = Raises("ValueError")
                      ELSE \E updated \in { update_chore_last_fields(chore, req) } :
                              /\ chores' = [ chores EXCEPT ![req.chore_id] = updated ]
                              /\ result' = Returns(updated)
    /\ UNCHANGED << pc, from_date, history, today, room_vars, save_vars >>

UpdateChore == UpdateChoreWith(UpdateRequests)

StoreNext ==
    \/ AddChore
    \/ UpdateChore

StoreSpec == StoreInit /\ [][StoreNext]_vars

(***************************************************************************)
(* The calendar: _generate_chore_events, one loop test at a time.  The     *)
(* locals current_due, count and events are fields of `call`; an event is  *)
(* kept as its start date.                                                 *)
(***************************************************************************)
\* The cap on the events generated for one chore.
MAX_CALENDAR_EVENTS == 100

\* Longest query window, in days.
WindowDays == 120

\* The due dates stored, the first days and the lengths of the windows asked.
CalendarDues == { Today0 - 40, Today0, Today0 + 10 }
CalendarStarts == { Today0 - 5, Today0 + 3 }
CalendarLengths == { 0, 41, WindowDays }

CalendarInit ==
    /\ pc = "ready"
    /\ from_date = None
    /\ call = NoCall
    /\ result = << >>
    /\ chores = NoKeys
    /\ history = << >>
    /\ today = Today0
    /\ HostInit

\* events = []; frequency = chore["frequency"];
\* current_due = date.fromisoformat(chore["next_due"])
GenerateChoreEvents ==
    /\ pc = "ready"
    /\ \E frequency \in FrequencyInputs, next_due \in CalendarDues,
          start \in CalendarStarts, length \in CalendarLengths :
          call' = [ fn |-> "_generate_chore_events", frequency |-> frequency,
                    start |-> start, end |-> start + length,
                    current_due |-> fromisoformat(isoformat(next_due)),
                    count |-> 0, events |-> << >> ]
    /\ pc' = "advance"
    /\ UNCHANGED << from_date, result, store_vars >>

\* while current_due < start: current_due = calculate_next_due(...)
\* Comparing None with a date raises TypeError outside the try.
AdvanceToStart ==
    /\ pc = "advance"
    /\ IF call.current_due = None
       THEN /\ pc' = "raised"
            /\ UNCHANGED call
       ELSE IF call.current_due < call.start
       THEN /\ call' = [ call EXCEPT !.current_due =
                             calculate_next_due(call.current_due, call.frequency) ]
            /\ UNCHANGED pc
       ELSE /\ pc' = "generate"
            /\ UNCHANGED call
    /\ UNCHANGED << from_date, result, store_vars >>

\* while current_due <= end and count < 100: events.append(...);
\* current_due = calculate_next_due(...); count += 1
GenerateEvent ==
    /\ pc = "generate"
    /\ IF call.current_due = None
       THEN /\ pc' = "raised"
            /\ UNCHANGED << call, result >>
       ELSE IF call.current_due <= call.end /\ call.count < MAX_CALENDAR_EVENTS
       THEN /\ call' = [ call EXCEPT
                           !.events = Append(call.events, call.current_due),
                           !.current_due =
                               calculate_next_due(call.current_due, call.frequency),
                           !.count = call.count + 1 ]
            /\ UNCHANGED << pc, result >>
       ELSE /\ pc' = "returned"
            /\ result' = call.events
            /\ UNCHANGED call
    /\ UNCHANGED << from_date, store_vars >>

CalendarNext ==
    \/ GenerateChoreEvents
    \/ AdvanceToStart
    \/ GenerateEvent

CalendarSpec == CalendarInit /\ [][CalendarNext]_vars

(***************************************************************************)
(* Completing and skipping: the coordinator's handlers on the store.  A    *)
(* handler reads the clock and runs within one day.                        *)
(***************************************************************************)
\* Days the clock moves on, completions recorded, and how far past Today0 a
\* due date may lie for the chore still to be skipped.
MaxDays == 1
MaxCompletions == 2
MaxSkipDays == 15

MAX_HISTORY_ENTRIES == 1000

\* store.users and the Home Assistant users: id -> display name.
UserNames == [ alice |-> "Alice" ]
\* user_id as a caller gives it.
UserIdInputs == { NoneStr, "alice", "guest" }

\* SimpleChoresCoordinator.async_get_user_name(user_id)
async_get_user_name(user_id) ==
    IF user_id \in DOMAIN UserNames THEN UserNames[user_id] ELSE user_id

\* Variant of complete_chore: every completed chore is marked done for good.
complete_chore_always_done(chore, user_id, next_due) ==
    LET done == [ last_completed |-> isoformat(today),
                  last_completed_by |-> user_id, is_completed |-> TRUE ] @@ chore
    IN  IF next_due = None
        THEN done
        ELSE [ next_due |-> isoformat(next_due) ] @@ done

\* SimpleChoresStore.complete_chore: the chore dict after the call.
\* Variant: the completion is recorded, the due date left as it was.
complete_chore_keeps_next_due(chore, user_id, next_due) ==
    LET done == [ last_completed |-> isoformat(today),
                  last_completed_by |-> user_id ] @@ chore
    IN  IF next_due = None
        THEN [ is_completed |-> TRUE ] @@ done
        ELSE [ is_completed |-> FALSE ] @@ done

complete_chore(chore, user_id, next_due) ==
    LET done == [ last_completed |-> isoformat(today),
                  last_completed_by |-> user_id ] @@ chore
    IN  IF next_due = None
        THEN [ is_completed |-> TRUE ] @@ done
        ELSE [ next_due |-> isoformat(next_due), is_completed |-> FALSE ] @@ done

\* SimpleChoresStore.complete_chore: the history entry (without its random id).
history_entry(chore_id, chore, user_id, user_name) ==
    [ chore_id |-> chore_id, chore_name |-> chore.name,
      completed_at |-> isoformat(today), completed_by |-> user_id,
      completed_by_name |-> user_name ]

\* SimpleChoresStore._cleanup_history
\* Variant: the entries beyond the limit are cut off at the end.
cleanup_history_keeps_oldest(entries) ==
    IF Len(entries) <= MAX_HISTORY_ENTRIES
    THEN entries
    ELSE SubSeq(entries, 1, MAX_HISTORY_ENTRIES)

cleanup_history(entries) ==
    IF Len(entries) <= MAX_HISTORY_ENTRIES
    THEN entries
    ELSE SubSeq(entries, Len(entries) - MAX_HISTORY_ENTRIES + 1, Len(entries))

\* Variant of skip_chore: the skip is recorded as a completion.
skip_chore_as_completion(chore, next_due) ==
    [ next_due |-> isoformat(next_due), last_completed |-> isoformat(today) ] @@ chore

\* SimpleChoresStore.skip_chore: the chore dict after the call.
skip_chore(chore, next_due) ==
    [ next_due |-> isoformat(next_due) ] @@ chore

\* SimpleChoresCoordinator.async_complete_chore(chore_id, user_id)
\* The completions recorded since the first day of the model.
CompletionsSoFar ==
    Cardinality({ i \in DOMAIN history :
                     fromisoformat(history[i].completed_at) >= Today0 })

CompleteChore ==
    /\ pc = "idle"
    /\ CompletionsSoFar < MaxCompletions
    /\ \E chore_id \in ChoreIds \cup { MissingId }, user_id \in UserIdInputs :
          /\ call' = [ fn |-> "async_complete_chore", chore_id |-> chore_id,
                       user_id |-> user_id ]
          /\ IF chore_id \notin DOMAIN chores
             THEN /\ result' = Returns(NoKeys)
                  /\ UNCHANGED << chores, history, persisted, dirty >>
             ELSE \E next_due \in { calculate_next_due_for_chore(chores[chore_id], today) },
                     user \in { IF user_id = NoneStr THEN "unknown" ELSE user_id } :
                     \E completed \in { complete_chore(chores[chore_id], user, next_due) } :
                        /\ chores' = [ chores EXCEPT ![chore_id] = completed ]
                        /\ history' = cleanup_history(Append(history,
                               history_entry(chore_id, chores[chore_id], user,
                                             async_get_user_name(user))))
                        /\ result' = Returns(completed)
                        /\ persisted' = StoreData(chores', history', rooms)
                        /\ dirty' = FALSE
    /\ UNCHANGED << pc, from_date, today, room_vars, save_task, writing >>

\* SimpleChoresCoordinator.async_skip_chore(chore_id); store.skip_chore
\* raises AttributeError on next_due.isoformat() when next_due is None.
SkipChore ==
    /\ pc = "idle"
    /\ \E chore_id \in ChoreIds \cup { MissingId } :
          /\ call' = [ fn |-> "async_skip_chore", chore_id |-> chore_id ]
          /\ IF chore_id \notin DOMAIN chores
             THEN /\ result' = Returns(NoKeys)
                  /\ UNCHANGED << chores, persisted, dirty >>
             ELSE \E current_due \in { fromisoformat(chores[chore_id].next_due) } :
                  \E next_due \in { calculate_next_due_for_chore(chores[chore_id],
                                                                 current_due) } :
                     /\ current_due < Today0 + MaxSkipDays
                     /\ IF next_due = None
                        THEN /\ result' = Raises("AttributeError")
                             /\ UNCHANGED << chores, persisted, dirty >>
                        ELSE \E skipped \in { skip_chore(chores[chore_id], next_due) } :
                                /\ chores' = [ chores EXCEPT ![chore_id] = skipped ]
                                /\ result' = Returns(skipped)
                                /\ persisted' = StoreData(chores', history, rooms)
                                /\ dirty' = FALSE
    /\ UNCHANGED << pc, from_date, history, today, room_vars, save_task, writing >>

\* Midnight passes between two calls.
AdvanceDay ==
    /\ pc = "idle"
    /\ today < Today0 + MaxDays
    /\ today' = today + 1
    /\ call' = NoCall
    /\ result' = Returns(NoKeys)
    /\ UNCHANGED << pc, from_date, chores, history, room_vars, save_vars >>

LifecycleNext ==
    \/ AddChore
    \/ CompleteChore
    \/ SkipChore
    \/ AdvanceDay

LifecycleSpec == StoreInit /\ [][LifecycleNext]_vars

(***************************************************************************)
(* The refresh of the coordinator: _async_update_data and the room names.  *)
(* Dicts are read in insertion order: a stored chore, area or custom room  *)
(* with an earlier place in the orders below was added earlier.            *)
(***************************************************************************)
ROOM_PREFIX_AREA == "area_"

ChoreOrder == << "c1", "c2" >>
AreaOrder == << "kitchen", "garage" >>
RoomOrder == << "custom_r1" >>

\* dict.values() of the keys present, in insertion order.
Values(order, dict) ==
    LET keys == SelectSeq(order, LAMBDA k : k \in DOMAIN dict)
    IN  [ i \in 1 .. Len(keys) |-> dict[keys[i]] ]

\* SimpleChoresCoordinator._get_all_rooms
get_all_rooms ==
    LET listed == SelectSeq(AreaOrder, LAMBDA a : a \in DOMAIN areas)
    IN  [ i \in 1 .. Len(listed) |->
            [ id |-> ROOM_PREFIX_AREA \o listed[i], name |-> areas[listed[i]],
              icon |-> "mdi:home", is_custom |-> FALSE ] ]
        \o Values(RoomOrder, rooms)

\* {room["id"]: room["name"] for room in all_rooms}
room_names(all_rooms) ==
    [ id \in { all_rooms[i].id : i \in DOMAIN all_rooms } |->
        all_rooms[CHOOSE i \in DOMAIN all_rooms :
                     /\ all_rooms[i].id = id
                     /\ \A j \in DOMAIN all_rooms :
                           all_rooms[j].id = id => j <= i].name ]

\* _get_room_name, the cache it leaves: rebuilt only when empty or None.
built_room_name_cache(cache, all_rooms) ==
    IF DOMAIN cache = {} THEN room_names(all_rooms) ELSE cache

\* _get_room_name, the name it returns from the cache it has left.
get_room_name(cache, room_id) ==
    IF room_id \in DOMAIN cache THEN cache[room_id] ELSE "Unknown Room"

\* Variant: no chore counts as completed.
is_completed_never(chore) == FALSE

\* chore.get("is_completed", False)
is_completed(chore) ==
    IF "is_completed" \in DOMAIN chore THEN chore.is_completed ELSE FALSE

\* The chores that the loop of _async_update_data does not skip.
active_chores == SelectSeq(Values(ChoreOrder, chores), LAMBDA c : ~ is_completed(c))

\* The cache after _async_update_data: _get_room_name is called once for
\* each chore that is not skipped.
refreshed_room_name_cache ==
    IF Len(active_chores) = 0
    THEN room_name_cache
    ELSE built_room_name_cache(room_name_cache, get_all_rooms)

\* Variant: the window of the coming week opens today.
in_next_seven_days_from_today(next_due, next_seven_days) ==
    today <= next_due /\ next_due <= next_seven_days

\* today < next_due <= next_seven_days
in_next_seven_days(next_due, next_seven_days) ==
    today < next_due /\ next_due <= next_seven_days

\* _async_update_data, the dict it returns, given the room name cache that
\* its calls of _get_room_name leave.  The list of users is left out.
async_update_data(cache) ==
    LET next_seven_days == today + 7
        all_rooms == get_all_rooms
        all_active_chores ==
            [ i \in 1 .. Len(active_chores) |->
                [ room_name |-> get_room_name(cache, active_chores[i].room_id) ]
                    @@ active_chores[i] ]
        overdue == SelectSeq(all_active_chores,
                             LAMBDA c : fromisoformat(c.next_due) < today)
        due_today == SelectSeq(all_active_chores,
                               LAMBDA c : \/ fromisoformat(c.next_due) < today
                                          \/ fromisoformat(c.next_due) = today)
        due_this_week == SelectSeq(all_active_chores,
                                   LAMBDA c : in_next_seven_days(
                                                  fromisoformat(c.next_due),
                                                  next_seven_days))
    IN  [ today |-> isoformat(today),
          seven_days_from_today |-> isoformat(next_seven_days),
          due_today |-> due_today,
          due_today_count |-> Len(due_today),
          due_this_week |-> due_this_week,
          due_this_week_count |-> Len(due_this_week),
          overdue |-> overdue,
          overdue_count |-> Len(overdue),
          has_overdue |-> Len(overdue) > 0,
          by_room |-> [ id \in { all_rooms[i].id : i \in DOMAIN all_rooms } |->
                          SelectSeq(all_active_chores, LAMBDA c : c.room_id = id) ],
          rooms |-> all_rooms,
          chores |-> all_active_chores,
          total_chores |-> Len(all_active_chores) ]

\* A refresh of the coordinator, as requested by every handler and by the
\* update interval.
Refresh ==
    /\ pc = "idle"
    /\ call' = [ fn |-> "_async_update_data" ]
    /\ \E cache \in { refreshed_room_name_cache } :
          /\ room_name_cache' = cache
          /\ result' = Returns(async_update_data(cache))
    /\ UNCHANGED << pc, from_date, chores, history, today, rooms, areas, save_vars >>

\* Chores due this many days after the first day or later are not snoozed.
MaxSnoozeDays == 2

\* SimpleChoresStore.snooze_chore
snooze_chore(chore) ==
    [ next_due |-> isoformat(fromisoformat(chore.next_due) + 1) ] @@ chore

\* SimpleChoresCoordinator.async_snooze_chore, its save included.
SnoozeChore ==
    /\ pc = "idle"
    /\ \E chore_id \in ChoreIds \cup { MissingId } :
          /\ call' = [ fn |-> "async_snooze_chore", chore_id |-> chore_id ]
          /\ IF chore_id \notin DOMAIN chores
             THEN /\ result' = Returns(NoKeys)
                  /\ UNCHANGED << chores, persisted, dirty >>
             ELSE \E snoozed \in { snooze_chore(chores[chore_id]) } :
                     /\ fromisoformat(chores[chore_id].next_due) < Today0 + MaxSnoozeDays
                     /\ chores' = [ chores EXCEPT ![chore_id] = snoozed ]
                     /\ result' = Returns(snoozed)
                     /\ persisted' = StoreData(chores', history, rooms)
                     /\ dirty' = FALSE
    /\ UNCHANGED << pc, from_date, history, today, room_vars, save_task, writing >>

(***************************************************************************)
(* The due-date notification: _async_send_due_notification.                *)
(***************************************************************************)
\* sub in s
contains(s, sub) ==
    \E i \in 1 .. (Len(s) - Len(sub) + 1) : SubSeq(s, i, i + Len(sub) - 1) = sub

\* s.replace(old, new)
RECURSIVE replace(_, _, _)
replace(s, old, new) ==
    IF Len(s) = 0
    THEN s
    ELSE IF startswith(s, old)
    THEN new \o replace(SubSeq(s, Len(old) + 1, Len(s)), old, new)
    ELSE SubSeq(s, 1, 1) \o replace(SubSeq(s, 2, Len(s)), old, new)

\* _get_due_date_label
get_due_date_label(days_ahead) ==
    IF days_ahead = 0 THEN "today"
    ELSE IF days_ahead = 1 THEN "tomorrow"
    ELSE IF days_ahead = 7 THEN "in 1 week"
    ELSE "in " \o ToString(days_ahead) \o " days"

\* _async_find_user_notify_services
async_find_user_notify_services(services, user_name) ==
    LET username_normalized == replace(replace(lower(user_name), " ", "_"), "-", "_")
    IN  SelectSeq(services,
                  LAMBDA service :
                      /\ startswith(service, "mobile_app_")
                      /\ contains(lower(replace(service, "mobile_app_", "")),
                                  username_normalized))

\* The elements of a list.
Elements(list) == { list[i] : i \in DOMAIN list }

\* coordinator.data.get("all_chores", [])
notified_chores(data) ==
    IF "all_chores" \in DOMAIN data THEN data.all_chores ELSE << >>

\* _async_send_due_notification after its refresh: the calls of the notify
\* service that it makes, each with its target, the label of the day, the
\* user the chores are assigned to and the chores listed in the message.
async_send_due_notification(data, days_before_list, configured_targets, services) ==
    LET all_chores == notified_chores(data)
        all_mobile_apps == SelectSeq(services,
                                     LAMBDA service : startswith(service, "mobile_app_"))
        broadcast == IF Len(configured_targets) > 0
                     THEN configured_targets ELSE all_mobile_apps
        chores_due(days_ahead) ==
            SelectSeq(all_chores, LAMBDA c : c.next_due = isoformat(today + days_ahead))
        targets(user_id) ==
            IF user_id = NoneStr
            THEN broadcast
            ELSE LET user_targets == async_find_user_notify_services(
                                         services, async_get_user_name(user_id))
                 IN  IF Len(user_targets) > 0 THEN user_targets ELSE broadcast
    IN  UNION { UNION { { [ target |-> target,
                            due_label |-> get_due_date_label(days_ahead),
                            assigned_to |-> user_id,
                            chores |-> SelectSeq(chores_due(days_ahead),
                                                 LAMBDA c : c.assigned_to = user_id) ] :
                            target \in Elements(targets(user_id)) } :
                        user_id \in { c.assigned_to : c \in Elements(chores_due(days_ahead)) } } :
                days_ahead \in Elements(days_before_list) }

\* entry.options and the services of the notify domain.
NotifyInputs ==
    { [ days_before_list |-> << 0 >>, configured_targets |-> << >>,
        services |-> << "mobile_app_alice_phone", "persistent_notification" >> ],
      [ days_before_list |-> << 0, 1 >>, configured_targets |-> << "mobile_app_tablet" >>,
        services |-> << "persistent_notification" >> ],
      [ days_before_list |-> << 1, 7 >>, configured_targets |-> << >>,
        services |-> << "mobile_app_alice_phone", "mobile_app_tablet" >> ] }

SendDueNotification ==
    /\ pc = "idle"
    /\ \E entry \in NotifyInputs :
          /\ call' = [ fn |-> "_async_send_due_notification" ] @@ entry
          /\ \E cache \in { refreshed_room_name_cache } :
                /\ room_name_cache' = cache
                /\ result' = Returns(async_send_due_notification(
                                 async_update_data(cache), entry.days_before_list,
                                 entry.configured_targets, entry.services))
    /\ UNCHANGED << pc, from_date, chores, history, today, rooms, areas, save_vars >>

(***************************************************************************)
(* The board: stored chores that are completed, skipped, snoozed and       *)
(* refreshed as the days pass.                                             *)
(***************************************************************************)
SeedParts ==
    { [ frequency |-> f, start_date |-> d, assigned_to |-> a ] :
          f \in { FREQUENCY_ONCE, FREQUENCY_WEEKLY },
          d \in { None, Today0 - 2, Today0 + 7, Today0 + 8 },
          a \in { "alice" } }

\* A second chore, which no operation of the model is aimed at.
Bystander == [ name |-> "Laundry", start_date |-> Today0 + 1 ] @@ AddDefaults

\* The store after the seed chores have been added and saved.
SeededInit(parts, bystanders) ==
    /\ pc = "idle"
    /\ from_date = None
    /\ call = NoCall
    /\ result = Returns(NoKeys)
    /\ today = Today0
    /\ history = << >>
    /\ rooms = NoKeys
    /\ areas = Areas0
    /\ room_name_cache = NoKeys
    /\ \E part \in parts, others \in bystanders :
          chores = [ id \in { "c1" } \cup others |->
                       IF id = "c1"
                       THEN add_chore_dict(part @@ AddDefaults, "c1")
                       ELSE add_chore_dict(Bystander, "c2") ]
    /\ persisted = StoreData(chores, history, rooms)
    /\ dirty = FALSE
    /\ save_task = NoTask
    /\ writing = NoWrite

BoardInit == SeededInit(SeedParts, { { "c2" } })

BoardNext ==
    \/ CompleteChore
    \/ SkipChore
    \/ SnoozeChore
    \/ Refresh
    \/ SendDueNotification
    \/ AdvanceDay

BoardSpec == BoardInit /\ [][BoardNext]_vars

\* The board without the passing of days, with updates of the first chore.
EditSeedParts ==
    { [ frequency |-> FREQUENCY_ONCE, assigned_to |-> a ] : a \in { NoneStr, "alice" } }

EditInit == SeededInit(EditSeedParts, { { "c2" } })

EditParts ==
    { [ chore_id |-> MissingId, name |-> "Laundry" ],
      [ name |-> "Laundry" ],
      [ assigned_to |-> "alice" ],
      [ room_id |-> "area_garage" ],
      [ frequency |-> "Once" ],
      [ frequency |-> UnknownFrequency, name |-> "Laundry" ],
      [ interval |-> -2, name |-> "Laundry" ] }

EditRequests == { part @@ UpdateDefaults : part \in EditParts }

EditChore == UpdateChoreWith(EditRequests)

EditNext ==
    \/ EditChore
    \/ CompleteChore
    \/ SkipChore
    \/ SnoozeChore
    \/ Refresh

EditSpec == EditInit /\ [][EditNext]_vars

(***************************************************************************)
(* Rooms: the custom rooms of the store, changed through the coordinator,  *)
(* and the areas of the host, changed by the host.                         *)
(***************************************************************************)
MAX_ROOM_NAME_LENGTH == 50

\* add_room and update_room reject such a name.
room_name_rejected(name) ==
    Len(strip(name)) = 0 \/ Len(strip(name)) > MAX_ROOM_NAME_LENGTH

\* SimpleChoresStore.add_room, the dict it stores.
add_room(room_id, name, icon) ==
    [ id |-> room_id, name |-> name,
      icon |-> IF icon = NoneStr THEN "mdi:home" ELSE icon, is_custom |-> TRUE ]

\* SimpleChoresStore.update_room
update_room(room, name, icon) ==
    LET named == IF name # NoneStr THEN [ name |-> strip(name) ] @@ room ELSE room
    IN  IF icon # NoneStr THEN [ icon |-> icon ] @@ named ELSE named

\* SimpleChoresStore.remove_room, the chores it leaves.
remove_room(room_id) ==
    [ id \in { c \in DOMAIN chores : chores[c].room_id # room_id } |-> chores[id] ]

RoomNameInputs == { "Shed", " Den ", " " }

\* SimpleChoresCoordinator.async_add_room, its save included.
AsyncAddRoom ==
    /\ pc = "idle"
    /\ \E name \in RoomNameInputs, room_id \in Elements(RoomOrder) \ DOMAIN rooms :
          /\ call' = [ fn |-> "async_add_room", name |-> name ]
          /\ IF room_name_rejected(name)
             THEN /\ result' = Raises("ValueError")
                  /\ UNCHANGED << rooms, room_name_cache, persisted, dirty >>
             ELSE \E room \in { add_room(room_id, name, NoneStr) } :
                     /\ rooms' = [ id \in DOMAIN rooms \cup { room_id } |->
                                     IF id = room_id THEN room ELSE rooms[id] ]
                     /\ room_name_cache' = NoKeys
                     /\ result' = Returns(room)
                     /\ persisted' = StoreData(chores, history, rooms')
                     /\ dirty' = FALSE
    /\ UNCHANGED << pc, from_date, chores, history, today, areas, save_task, writing >>

\* SimpleChoresCoordinator.async_update_room, its save included.
AsyncUpdateRoom ==
    /\ pc = "idle"
    /\ \E room_id \in Elements(RoomOrder), name \in { NoneStr, "Workshop ", " " }, icon \in { NoneStr, "mdi:tools" } :
          /\ call' = [ fn |-> "async_update_room", room_id |-> room_id,
                       name |-> name, icon |-> icon ]
          /\ IF room_id \notin DOMAIN rooms
             THEN /\ result' = Returns(NoKeys)
                  /\ UNCHANGED << rooms, room_name_cache, persisted, dirty >>
             ELSE IF name # NoneStr /\ room_name_rejected(name)
             THEN /\ result' = Raises("ValueError")
                  /\ UNCHANGED << rooms, room_name_cache, persisted, dirty >>
             ELSE \E room \in { update_room(rooms[room_id], name, icon) } :
                     /\ rooms' = [ rooms EXCEPT ![room_id] = room ]
                     /\ room_name_cache' = NoKeys
                     /\ result' = Returns(room)
                     /\ persisted' = StoreData(chores, history, rooms')
                     /\ dirty' = FALSE
    /\ UNCHANGED << pc, from_date, chores, history, today, areas, save_task, writing >>

\* SimpleChoresCoordinator.async_remove_room, its save included.
AsyncRemoveRoom ==
    /\ pc = "idle"
    /\ \E room_id \in Elements(RoomOrder) :
          /\ call' = [ fn |-> "async_remove_room", room_id |-> room_id ]
          /\ IF room_id \notin DOMAIN rooms
             THEN /\ result' = Returns(FALSE)
                  /\ UNCHANGED << chores, rooms, room_name_cache, persisted, dirty >>
             ELSE /\ chores' = remove_room(room_id)
                  /\ rooms' = [ id \in DOMAIN rooms \ { room_id } |-> rooms[id] ]
                  /\ room_name_cache' = NoKeys
                  /\ result' = Returns(TRUE)
                  /\ persisted' = StoreData(chores', history, rooms')
                  /\ dirty' = FALSE
    /\ UNCHANGED << pc, from_date, history, today, areas, save_task, writing >>

\* The host adds an area to its registry.
AreaAdded ==
    /\ pc = "idle"
    /\ \E area_id \in Elements(AreaOrder) \ DOMAIN areas :
          areas' = [ id \in DOMAIN areas \cup { area_id } |->
                       IF id = area_id THEN "Garage" ELSE areas[id] ]
    /\ UNCHANGED << pc, from_date, call, result, chores, history, today, rooms,
                    room_name_cache, save_vars >>

\* The host renames an area of its registry.
AreaRenamed ==
    /\ pc = "idle"
    /\ \E area_id \in DOMAIN areas, name \in { "Kitchen", "Galley" } :
          /\ areas[area_id] # name
          /\ areas' = [ areas EXCEPT ![area_id] = name ]
    /\ UNCHANGED << pc, from_date, call, result, chores, history, today, rooms,
                    room_name_cache, save_vars >>

\* The store after a custom room and two chores have been added and saved.
RoomInit ==
    /\ pc = "idle"
    /\ from_date = None
    /\ call = NoCall
    /\ result = Returns(NoKeys)
    /\ today = Today0
    /\ history = << >>
    /\ rooms = [ custom_r1 |-> add_room("custom_r1", "Shed", NoneStr) ]
    /\ areas = Areas0
    /\ room_name_cache = NoKeys
    /\ chores = [ id \in { "c1", "c2" } |->
                    IF id = "c1"
                    THEN add_chore_dict(AddDefaults, "c1")
                    ELSE add_chore_dict([ room_id |-> "custom_r1" ] @@ Bystander, "c2") ]
    /\ persisted = StoreData(chores, history, rooms)
    /\ dirty = FALSE
    /\ save_task = NoTask
    /\ writing = NoWrite

RoomNext ==
    \/ AsyncAddRoom
    \/ AsyncUpdateRoom
    \/ AsyncRemoveRoom
    \/ AreaAdded
    \/ AreaRenamed
    \/ Refresh

RoomSpec == RoomInit /\ [][RoomNext]_vars

(***************************************************************************)
(* A long history: a chore that has been completed once a day for nearly   *)
(* as many days as the history holds entries.                              *)
(***************************************************************************)
\* The history after completions by alice on each of the last days before
\* the first day of the model.
LongHistory(length) ==
    [ i \in 1 .. length |->
        [ chore_id |-> "c1", chore_name |-> AddDefaults.name,
          completed_at |-> isoformat(Today0 - (length - i + 1)),
          completed_by |-> "alice",
          completed_by_name |-> async_get_user_name("alice") ] ]

HistoryInit ==
    /\ pc = "idle"
    /\ from_date = None
    /\ call = NoCall
    /\ result = Returns(NoKeys)
    /\ today = Today0
    /\ \E length \in { MAX_HISTORY_ENTRIES - 1, MAX_HISTORY_ENTRIES } :
          history = LongHistory(length)
    /\ rooms = NoKeys
    /\ areas = Areas0
    /\ room_name_cache = NoKeys
    /\ \E frequency \in { FREQUENCY_DAILY, FREQUENCY_WEEKLY } :
          chores = [ id \in { "c1" } |->
                       [ created_at |-> isoformat(Today0 - MAX_HISTORY_ENTRIES),
                         next_due |-> isoformat(calculate_next_due(Today0 - 1, frequency)),
                         last_completed |-> isoformat(Today0 - 1),
                         last_completed_by |-> "alice" ]
                       @@ add_chore_dict([ frequency |-> frequency ] @@ AddDefaults, "c1") ]
    /\ persisted = StoreData(chores, history, rooms)
    /\ dirty = FALSE
    /\ save_task = NoTask
    /\ writing = NoWrite

HistoryNext ==
    \/ CompleteChore
    \/ AdvanceDay

HistorySpec == HistoryInit /\ [][HistoryNext]_vars

(***************************************************************************)
(* The save logic of the store: async_save, async_save_debounced and       *)
(* async_flush_debounced_save.  A call of the host's Store.async_save      *)
(* suspends its caller; the calls return in the order in which they were   *)
(* made, and each writes self._data as it is at some moment between its    *)
(* turn and its return.                                                    *)
(***************************************************************************)
\* At most this many calls of Store.async_save are suspended at a time.
MaxWrites == 1

\* await self._store.async_save(self._data), on behalf of the caller.
StartWrite(queue, by) ==
    Append(queue, [ by |-> by, serialized |-> FALSE, data |-> NoKeys ])

\* self._save_task.cancel() while _delayed_save is suspended in its write:
\* the write is abandoned, or it goes on without its caller.
cancel_writes(queue) ==
    { SelectSeq(queue, LAMBDA w : w.by # "_delayed_save"),
      [ i \in DOMAIN queue |->
          IF queue[i].by = "_delayed_save"
          THEN [ queue[i] EXCEPT !.by = "cancelled" ] ELSE queue[i] ] }

\* The first part of async_save_debounced and of async_flush_debounced_save:
\* a task that is not done is cancelled.
task_not_done == save_task \in { "sleeping", "writing" }

\* SimpleChoresCoordinator.async_snooze_chore up to the point where its
\* call of async_save suspends it.
SnoozeChoreBegins ==
    /\ pc = "idle"
    /\ Len(writing) < MaxWrites
    /\ \E chore_id \in ChoreIds \cup { MissingId } :
          /\ call' = [ fn |-> "async_snooze_chore", chore_id |-> chore_id ]
          /\ IF chore_id \notin DOMAIN chores
             THEN /\ result' = Returns(NoKeys)
                  /\ UNCHANGED << chores, writing >>
             ELSE \E snoozed \in { snooze_chore(chores[chore_id]) } :
                     /\ fromisoformat(chores[chore_id].next_due) < Today0 + MaxSnoozeDays
                     /\ chores' = [ chores EXCEPT ![chore_id] = snoozed ]
                     /\ writing' = StartWrite(writing, "async_save")
                     /\ result' = Returns(snoozed)
    /\ UNCHANGED << pc, from_date, history, today, room_vars, persisted, dirty, save_task >>

SaveParts == { [ name |-> "Laundry" ], [ name |-> "Dishes", room_id |-> "area_garage" ] }
SaveRequests == { part @@ UpdateDefaults : part \in SaveParts }

\* SimpleChoresCoordinator.async_update_chore with its call of
\* async_save_debounced, which does not suspend.
AsyncUpdateChore ==
    /\ pc = "idle"
    /\ \E req \in SaveRequests :
          /\ call' = [ fn |-> "async_update_chore" ] @@ req
          /\ IF /\ req.room_id # NoneStr
                /\ req.room_id \notin { get_all_rooms[i].id : i \in DOMAIN get_all_rooms }
             THEN /\ result' = Raises("ValueError")
                  /\ UNCHANGED << chores, dirty, save_task, writing >>
             ELSE IF req.chore_id \notin DOMAIN chores
             THEN /\ result' = Returns(NoKeys)
                  /\ UNCHANGED << chores, dirty, save_task, writing >>
             ELSE IF update_chore_raises_early(req)
             THEN /\ result' = Raises("ValueError")
                  /\ UNCHANGED << chores, dirty, save_task, writing >>
             ELSE \E chore \in { update_chore_first_fields(chores[req.chore_id], req) } :
                      IF req.interval # None /\ req.interval < 1
                      THEN /\ chores' = [ chores EXCEPT ![req.chore_id] = chore ]
                           /\ result' = Raises("ValueError")
                           /\ UNCHANGED << dirty, save_task, writing >>
                      ELSE \E updated \in { update_chore_last_fields(chore, req) } :
                              /\ chores' = [ chores EXCEPT ![req.chore_id] = updated ]
                              /\ result' = Returns(updated)
                              /\ dirty' = TRUE
                              /\ save_task' = "sleeping"
                              /\ IF task_not_done
                                 THEN writing' \in cancel_writes(writing)
                                 ELSE UNCHANGED writing
    /\ UNCHANGED << pc, from_date, history, today, room_vars, persisted >>

\* _delayed_save when its sleep is over.
DelayedSaveWakes ==
    /\ pc = "idle"
    /\ save_task = "sleeping"
    /\ IF dirty
       THEN /\ Len(writing) < MaxWrites
            /\ writing' = StartWrite(writing, "_delayed_save")
            /\ save_task' = "writing"
       ELSE /\ save_task' = "done"
            /\ UNCHANGED writing
    /\ UNCHANGED << pc, from_date, call, result, chores, history, today, room_vars,
                    persisted, dirty >>

\* The host serializes self._data for the oldest call of Store.async_save.
WriteSerializes ==
    /\ pc = "idle"
    /\ Len(writing) > 0
    /\ ~ writing[1].serialized
    /\ writing' = [ writing EXCEPT ![1] = [ @ EXCEPT !.serialized = TRUE,
                                                   !.data = StoreData(chores, history, rooms) ] ]
    /\ UNCHANGED << pc, from_date, call, result, chores, history, today, room_vars,
                    persisted, dirty, save_task >>

\* The oldest call of Store.async_save returns, and its caller goes on:
\* async_save and _delayed_save both with self._dirty = False.
WriteReturns ==
    /\ pc = "idle"
    /\ Len(writing) > 0
    /\ writing[1].serialized
    /\ persisted' = writing[1].data
    /\ writing' = Tail(writing)
    /\ dirty' = (IF writing[1].by = "cancelled" THEN dirty ELSE FALSE)
    /\ save_task' = (IF writing[1].by = "_delayed_save" THEN "done" ELSE save_task)
    /\ call' = (IF writing[1].by = "async_flush_debounced_save"
                THEN [ fn |-> "async_flush_debounced_save", returned |-> TRUE ]
                ELSE call)
    /\ UNCHANGED << pc, from_date, result, chores, history, today, room_vars >>

\* async_flush_debounced_save up to its return or to the point where its
\* call of async_save suspends it.
FlushDebouncedSave ==
    /\ pc = "idle"
    /\ \E queue \in (IF task_not_done THEN cancel_writes(writing) ELSE { writing }) :
          /\ save_task' = (IF task_not_done THEN "done" ELSE save_task)
          /\ IF dirty
             THEN /\ Len(queue) < MaxWrites
                  /\ writing' = StartWrite(queue, "async_flush_debounced_save")
             ELSE writing' = queue
          /\ call' = [ fn |-> "async_flush_debounced_save", returned |-> ~ dirty ]
    /\ UNCHANGED << pc, from_date, result, chores, history, today, room_vars,
                    persisted, dirty >>

SaveInit == SeededInit({ [ frequency |-> FREQUENCY_WEEKLY ] }, { {} })

SaveNext ==
    \/ SnoozeChoreBegins
    \/ AsyncUpdateChore
    \/ DelayedSaveWakes
    \/ WriteSerializes
    \/ WriteReturns
    \/ FlushDebouncedSave

SaveSpec == SaveInit /\ [][SaveNext]_vars

(***************************************************************************)
(* Properties.                                                             *)
(***************************************************************************)
\* The call of `fn` has returned.
Returned(fn) == pc = "returned" /\ call.fn = fn

\* 0 = Sunday .. 6 = Saturday, the weekday code of the anchor fields.
WeekdayCode(d) == (Weekday(d) + 1) % 7

\* Months since year 0 of the month a date lies in.
MonthIndex(d) == Year(d) * 12 + Month(d) - 1

\* r is d moved k calendar months on: it lies k months later and keeps d's
\* day-of-month, or is the last day of its month when that day does not exist.
AdvancedByMonths(d, r, k) ==
    /\ MonthIndex(r) = MonthIndex(d) + k
    /\ Day(r) = IF Day(d) <= DaysInMonth(Year(r), Month(r))
                THEN Day(d)
                ELSE DaysInMonth(Year(r), Month(r))

RecurringFrequencies == { FREQUENCIES[i] : i \in DOMAIN FREQUENCIES } \ { FREQUENCY_ONCE }

\* The frequency key of the chore of a dispatcher call is present and is f.
ChoreFrequencyIs(f) == "frequency" \in DOMAIN call.chore /\ call.chore.frequency = f

\* C1: for a recurring frequency, recurrence_type interval, anchored or
\* missing, interval >= 1 and anchor fields absent or in range,
\* calculate_next_due_for_chore returns a date strictly after the reference
\* date: never the reference date, an earlier date or None.
C1_StrictlyForward ==
    ( /\ Returned("calculate_next_due_for_chore")
      /\ "frequency" \in DOMAIN call.chore
      /\ call.chore.frequency \in RecurringFrequencies
      /\ Get(call.chore, "recurrence_type", RECURRENCE_INTERVAL)
             \in { RECURRENCE_INTERVAL, RECURRENCE_ANCHORED }
      /\ Get(call.chore, "interval", 1) >= 1 )
    => ( result # None /\ result > from_date )

\* C1 witness: an anchored monthly chore on day 31 asked on 2024-01-31, the
\* anchor day itself, is due on 2024-02-29.
C1_Witness ==
    /\ Returned("calculate_next_due_for_chore")
    /\ ChoreFrequencyIs(FREQUENCY_MONTHLY)
    /\ Get(call.chore, "recurrence_type", RECURRENCE_INTERVAL) = RECURRENCE_ANCHORED
    /\ Get(call.chore, "anchor_type", NoneStr) = ANCHOR_DAY_OF_MONTH
    /\ Get(call.chore, "anchor_day_of_month", None) = 31
    /\ from_date = Date(2024, 1, 31)
    /\ result = Date(2024, 2, 29)

\* C2: with frequency once calculate_next_due_for_chore returns None for
\* every reference date, recurrence_type and anchor fields, and so does
\* calculate_next_due.
C2_OnceHasNoNextOccurrence ==
    /\ ( Returned("calculate_next_due_for_chore") /\ ChoreFrequencyIs(FREQUENCY_ONCE) )
           => result = None
    /\ ( Returned("calculate_next_due") /\ call.frequency = FREQUENCY_ONCE )
           => result = None

\* C2 witness: an anchored once chore that carries anchor fields gets None.
C2_Witness ==
    /\ Returned("calculate_next_due_for_chore")
    /\ ChoreFrequencyIs(FREQUENCY_ONCE)
    /\ Get(call.chore, "recurrence_type", RECURRENCE_INTERVAL) = RECURRENCE_ANCHORED
    /\ "anchor_days_of_week" \in DOMAIN call.chore
    /\ result = None

\* C3: calculate_next_due adds 1 day for daily, 7 days for weekly, 14 days
\* for biweekly and 1, 2, 3, 6, 12 calendar months for monthly, bimonthly,
\* quarterly, biannual, yearly (day-of-month kept, or the last day of a
\* shorter target month); an unrecognized frequency returns the date itself.
C3_FixedIntervals ==
    Returned("calculate_next_due") =>
        LET f == call.frequency
        IN  /\ f = FREQUENCY_DAILY     => result = from_date + 1
            /\ f = FREQUENCY_WEEKLY    => result = from_date + 7
            /\ f = FREQUENCY_BIWEEKLY  => result = from_date + 14
            /\ f = FREQUENCY_MONTHLY   => AdvancedByMonths(from_date, result, 1)
            /\ f = FREQUENCY_BIMONTHLY => AdvancedByMonths(from_date, result, 2)
            /\ f = FREQUENCY_QUARTERLY => AdvancedByMonths(from_date, result, 3)
            /\ f = FREQUENCY_BIANNUAL  => AdvancedByMonths(from_date, result, 6)
            /\ f = FREQUENCY_YEARLY    => AdvancedByMonths(from_date, result, 12)
            /\ f = UnknownFrequency    => result = from_date

\* C3 witness: yearly from the leap day 2024-02-29 gives 2025-02-28.
C3_Witness ==
    /\ Returned("calculate_next_due")
    /\ call.frequency = FREQUENCY_YEARLY
    /\ from_date = Date(2024, 2, 29)
    /\ result = Date(2025, 2, 28)

\* The least element of a non-empty set of integers.
Least(S) == CHOOSE x \in S : \A y \in S : x <= y

\* C4: calculate_next_anchored_weekly with a non-empty anchor set returns a
\* date strictly after the reference date whose weekday code is an anchor;
\* with interval 1 no date in between falls on an anchor weekday.
C4_AnchoredWeeklyLandsOnAnchor ==
    ( Returned("calculate_next_anchored_weekly") /\ call.anchor_days # {} )
    => /\ result > from_date
       /\ WeekdayCode(result) \in call.anchor_days
       /\ call.interval = 1 =>
              \A t \in (from_date + 1) .. (result - 1) :
                  WeekdayCode(t) \notin call.anchor_days

\* C4 witness: the reference date is a Sunday and Sunday is the only
\* anchor; the result is the Sunday one week later.
C4_Witness ==
    /\ Returned("calculate_next_anchored_weekly")
    /\ call.anchor_days = { WEEKDAY_SUNDAY }
    /\ call.interval = 1
    /\ WeekdayCode(from_date) = WEEKDAY_SUNDAY
    /\ result = from_date + 7

\* The month `k` months after the month of d, as <<year, month>>.
MonthAfter(d, k) ==
    << (MonthIndex(d) + k) \div 12, ((MonthIndex(d) + k) % 12) + 1 >>

\* Day min(D, length of the month) of a month.
CappedDayOf(year, month, D) ==
    Date(year, month, IF D < DaysInMonth(year, month) THEN D ELSE DaysInMonth(year, month))

\* C5: in day_of_month mode with anchor day D in 1..31 the result is day
\* min(D, month length) of the reference month when that is strictly after
\* the reference date, otherwise of the month months_interval months later;
\* its day-of-month is min(D, length of its month).
C5_DayOfMonthAnchor ==
    ( /\ Returned("calculate_next_anchored_monthly")
      /\ call.anchor_type = ANCHOR_DAY_OF_MONTH
      /\ call.anchor_day_of_month \in 1 .. 31 )
    => LET D     == call.anchor_day_of_month
           here  == CappedDayOf(Year(from_date), Month(from_date), D)
           after == MonthAfter(from_date, call.months_interval)
           there == CappedDayOf(after[1], after[2], D)
       IN  /\ result = IF here > from_date THEN here ELSE there
           /\ Day(result) =
                  IF D < DaysInMonth(Year(result), Month(result))
                  THEN D ELSE DaysInMonth(Year(result), Month(result))

\* C5 witness: anchor day 31 asked on 2024-01-31 with a two-month interval:
\* the anchor day itself is not taken, the result is 2024-03-31.
C5_Witness ==
    /\ Returned("calculate_next_anchored_monthly")
    /\ call.anchor_type = ANCHOR_DAY_OF_MONTH
    /\ call.anchor_day_of_month = 31
    /\ call.months_interval = 2
    /\ from_date = Date(2024, 1, 31)
    /\ result = Date(2024, 3, 31)

\* The dates of a month that fall on weekday code wd.
Occurrences(year, month, wd) ==
    { d \in Date(year, month, 1) .. Date(year, month, DaysInMonth(year, month)) :
          WeekdayCode(d) = wd }

\* The n-th date of a month on weekday code wd, the last one for n = 5;
\* None when the month has no n-th one.
NthOccurrence(year, month, wd, n) ==
    LET occ == Occurrences(year, month, wd)
    IN  IF n = 5
        THEN CHOOSE d \in occ : \A e \in occ : e <= d
        ELSE IF \E d \in occ : Cardinality({ e \in occ : e < d }) = n - 1
             THEN CHOOSE d \in occ : Cardinality({ e \in occ : e < d }) = n - 1
             ELSE None

\* C6: in week_pattern mode with anchor_week in 1..5 and anchor_weekday in
\* 0..6 the result is the anchor_week-th (for 5 the last) anchor_weekday of
\* the reference month when it exists and is strictly after the reference
\* date, otherwise that occurrence of the month months_interval months
\* later; the result falls on anchor_weekday.
C6_WeekPatternAnchor ==
    ( /\ Returned("calculate_next_anchored_monthly")
      /\ call.anchor_type = ANCHOR_WEEK_PATTERN
      /\ call.anchor_week \in 1 .. 5
      /\ call.anchor_weekday \in 0 .. 6 )
    => LET here  == NthOccurrence(Year(from_date), Month(from_date),
                                  call.anchor_weekday, call.anchor_week)
           after == MonthAfter(from_date, call.months_interval)
           there == NthOccurrence(after[1], after[2],
                                  call.anchor_weekday, call.anchor_week)
       IN  /\ result # None
           /\ result = IF here # None /\ here > from_date THEN here ELSE there
           /\ WeekdayCode(result) = call.anchor_weekday

\* C6 witness: "last Friday" asked on the last Friday of January 2024
\* rolls to the last Friday of February, a month with four Fridays.
C6_Witness ==
    /\ Returned("calculate_next_anchored_monthly")
    /\ call.anchor_type = ANCHOR_WEEK_PATTERN
    /\ call.anchor_week = WEEK_LAST
    /\ call.anchor_weekday = 5
    /\ call.months_interval = 1
    /\ from_date = Date(2024, 1, 26)
    /\ result = Date(2024, 2, 23)

AnchorKeys == { "anchor_days_of_week", "anchor_type", "anchor_day_of_month",
                "anchor_week", "anchor_weekday" }

\* The chore without its anchor fields.
WithoutAnchors(chore) == [ k \in (DOMAIN chore) \ AnchorKeys |-> chore[k] ]

\* The dispatcher call is one that the interval calculation serves:
\* recurrence_type missing or not anchored, or anchored with a frequency
\* outside weekly .. yearly.
ServedByInterval ==
    /\ Returned("calculate_next_due_for_chore")
    /\ \/ "recurrence_type" \notin DOMAIN call.chore
       \/ call.chore.recurrence_type # RECURRENCE_ANCHORED
       \/ Get(call.chore, "frequency", FREQUENCY_WEEKLY)
              \notin (WeeklyFamily \cup MonthlyFamily)

\* C7: when recurrence_type is missing or not anchored, or anchored with a
\* frequency outside weekly .. yearly, calculate_next_due_for_chore equals
\* calculate_next_due(d, frequency) whatever the anchor fields are; without
\* recurrence_type the result is that of recurrence_type = interval.
C7_FallsBackToInterval ==
    ServedByInterval =>
        /\ result = calculate_next_due(
                        from_date, Get(call.chore, "frequency", FREQUENCY_WEEKLY))
        /\ result = calculate_next_due_for_chore(WithoutAnchors(call.chore), from_date)
        /\ "recurrence_type" \notin DOMAIN call.chore =>
               result = calculate_next_due_for_chore(
                            [ recurrence_type |-> RECURRENCE_INTERVAL ] @@ call.chore,
                            from_date)

\* C7 witness: a weekly chore on a Tuesday with an unknown recurrence_type
\* and anchor days Monday and Thursday is due a week later, not on Thursday.
C7_Witness ==
    /\ Returned("calculate_next_due_for_chore")
    /\ ChoreFrequencyIs(FREQUENCY_WEEKLY)
    /\ Get(call.chore, "recurrence_type", RECURRENCE_INTERVAL) = UnknownRecurrence
    /\ Get(call.chore, "anchor_days_of_week", {}) = {1, 4}
    /\ WeekdayCode(from_date) = 2
    /\ result = from_date + 7

\* The dispatcher call is for an anchored chore of frequency f.
AnchoredCall(f) ==
    /\ Returned("calculate_next_due_for_chore")
    /\ Get(call.chore, "recurrence_type", RECURRENCE_INTERVAL) = RECURRENCE_ANCHORED
    /\ ChoreFrequencyIs(f)

\* calculate_next_anchored_monthly on the chore's anchor fields.
AnchoredMonthlyOf(chore, d, months_interval) ==
    calculate_next_anchored_monthly(
        d,
        Get(chore, "anchor_type", ANCHOR_DAY_OF_MONTH),
        Get(chore, "anchor_day_of_month", None),
        Get(chore, "anchor_week", None),
        Get(chore, "anchor_weekday", None),
        months_interval)

C9_IntervalMultiplies ==
    ( /\ Returned("calculate_next_due_for_chore")
      /\ "frequency" \in DOMAIN call.chore
      /\ call.chore.frequency \in RecurringFrequencies
      /\ Get(call.chore, "recurrence_type", RECURRENCE_INTERVAL) = RECURRENCE_INTERVAL )
    => LET f == call.chore.frequency
           N == Get(call.chore, "interval", 1)
       IN  /\ f = FREQUENCY_DAILY     => result = from_date + N
           /\ f = FREQUENCY_WEEKLY    => result = from_date + 7 * N
           /\ f = FREQUENCY_BIWEEKLY  => result = from_date + 14 * N
           /\ f = FREQUENCY_MONTHLY   => AdvancedByMonths(from_date, result, N)
           /\ f = FREQUENCY_BIMONTHLY => AdvancedByMonths(from_date, result, 2 * N)
           /\ f = FREQUENCY_QUARTERLY => AdvancedByMonths(from_date, result, 3 * N)
           /\ f = FREQUENCY_BIANNUAL  => AdvancedByMonths(from_date, result, 6 * N)
           /\ f = FREQUENCY_YEARLY    => AdvancedByMonths(from_date, result, 12 * N)

\* C10: calculate_next_anchored_weekly returns, when an anchor weekday lies
\* later in the reference date's Sunday-Saturday week, the smallest such
\* day of that week whatever the interval; otherwise the reference date
\* plus the 1..7 days to the next Sunday, the smallest anchor code and
\* 7 x (interval - 1) days, which is the smallest anchor weekday of the week
\* starting `interval` weeks after the reference week's Sunday; and with no
\* anchors the reference date plus interval weeks.
C10_WeekInterval ==
    Returned("calculate_next_anchored_weekly") =>
        LET A       == call.anchor_days
            now     == WeekdayCode(from_date)
            later   == { a \in A : a > now }
            sunday  == get_week_bounds(from_date)[1]
            to_next_sunday ==
                CHOOSE k \in 1 .. 7 : WeekdayCode(from_date + k) = WEEKDAY_SUNDAY
        IN  /\ A = {} => result = from_date + 7 * call.interval
            /\ later # {} =>
                   /\ result = from_date + (Least(later) - now)
                   /\ result <= get_week_bounds(from_date)[2]
            /\ (A # {} /\ later = {}) =>
                   /\ result = from_date + to_next_sunday + Least(A)
                                   + 7 * (call.interval - 1)
                   /\ result = sunday + 7 * call.interval + Least(A)

\* C10 witness: anchors Monday and Thursday, interval 2, asked on a Friday:
\* the result is the Monday ten days later.
C10_Witness ==
    /\ Returned("calculate_next_anchored_weekly")
    /\ call.anchor_days = {1, 4}
    /\ call.interval = 2
    /\ WeekdayCode(from_date) = 5
    /\ result = from_date + 10

\* C11: for every year, month, weekday code w in 0..6 and n in 1..4,
\* get_nth_weekday_of_month returns None or a date of the requested year and
\* month that falls on weekday w and is the n-th such date of the month: its
\* day-of-month lies in 7(n-1)+1 .. 7n and n - 1 dates on w precede it in the
\* month; it is never a date of the following month.
C11_NthWeekdayInMonth ==
    ( /\ Returned("get_nth_weekday_of_month")
      /\ call.n \in 1 .. 4
      /\ call.weekday \in 0 .. 6 )
    => \/ result = None
       \/ /\ Year(result) = call.year
          /\ Month(result) = call.month
          /\ Weekday(result) = (call.weekday + 6) % 7
          /\ Day(result) \in (7 * (call.n - 1) + 1) .. (7 * call.n)
          /\ Cardinality({ e \in Occurrences(call.year, call.month, call.weekday) :
                               e < result }) = call.n - 1

\* C11 witness: the fourth Tuesday of February 2023, a month of 28 days,
\* is its last day 2023-02-28.
C11_Witness ==
    /\ Returned("get_nth_weekday_of_month")
    /\ call.year = 2023 /\ call.month = 2
    /\ call.weekday = 2 /\ call.n = 4
    /\ result = Date(2023, 2, 28)

\* C12: for every year, month and weekday code w in 0..6,
\* get_nth_weekday_of_month with n = 5 returns a date, never None: the last
\* date of the month that falls on w, which lies in the month's final 7 days,
\* also when w occurs only four times in the month.
C12_LastWeekdayOfMonth ==
    ( /\ Returned("get_nth_weekday_of_month")
      /\ call.n = WEEK_LAST
      /\ call.weekday \in 0 .. 6 )
    => /\ result # None
       /\ Year(result) = call.year
       /\ Month(result) = call.month
       /\ Weekday(result) = (call.weekday + 6) % 7
       /\ Day(result) > DaysInMonth(call.year, call.month) - 7
       /\ \A e \in Occurrences(call.year, call.month, call.weekday) : e <= result

\* C12 witness: February 2023 has four Mondays; the last Monday is the
\* fourth, 2023-02-27.
C12_Witness ==
    /\ Returned("get_nth_weekday_of_month")
    /\ call.year = 2023 /\ call.month = 2
    /\ call.weekday = 1 /\ call.n = WEEK_LAST
    /\ Cardinality(Occurrences(2023, 2, 1)) = 4
    /\ result = Date(2023, 2, 27)

\* A date known to be a Sunday: 2023-12-31.
KnownSunday == Date(2023, 12, 31)

\* C14: for every date d, get_week_bounds(d) = (week_start, week_end) with
\* week_start <= d <= week_end, week_end = week_start + 6 days, week_start a
\* Sunday and week_end a Saturday.
C14_WeekBounds ==
    Returned("get_week_bounds")
    => LET week_start == result[1]
           week_end   == result[2]
       IN  /\ week_start <= from_date
           /\ from_date <= week_end
           /\ week_end = week_start + 6
           /\ (week_start - KnownSunday) % 7 = 0
           /\ (week_end - (KnownSunday - 1)) % 7 = 0

\* C14 witness: a Sunday is the start of its own week; the week of
\* 2023-12-31 ends on Saturday 2024-01-06.
C14_Witness ==
    /\ Returned("get_week_bounds")
    /\ from_date = Date(2023, 12, 31)
    /\ result = << Date(2023, 12, 31), Date(2024, 1, 6) >>

\* What the week pattern of the call resolves to in the month k months
\* after the reference month: a date, or None.
PatternIn(k) ==
    get_nth_weekday_of_month(MonthAfter(from_date, k)[1], MonthAfter(from_date, k)[2],
                             call.anchor_weekday, call.anchor_week)

\* The state predicate of C13.
C13_SearchState ==
    /\ pc = "searching" =>
          /\ call.attempts \in 0 .. 12
          /\ MonthIndex(call.next_month_date)
                 = MonthIndex(from_date) + call.months_interval + call.attempts
          /\ call.target_date = PatternIn(call.months_interval + call.attempts)
          /\ call.attempts > 0 =>
                 PatternIn(call.months_interval + call.attempts - 1) = None
    /\ ( Returned("week_pattern") /\ "attempts" \in DOMAIN call ) =>
          LET resolving == { j \in 0 .. 12 :
                                PatternIn(call.months_interval + j) # None }
          IN  /\ call.attempts <= 12
              /\ resolving # {} =>
                     /\ call.attempts = Least(resolving)
                     /\ result = PatternIn(call.months_interval + Least(resolving))
              /\ resolving = {} =>
                     /\ call.attempts = 12
                     /\ AdvancedByMonths(from_date, result, call.months_interval)
    /\ Returned("week_pattern") =>
          result = calculate_next_anchored_monthly(
                       from_date, ANCHOR_WEEK_PATTERN, None, call.anchor_week,
                       call.anchor_weekday, call.months_interval)

\* C13: in week_pattern mode, when the pattern does not resolve in the
\* month months_interval months after the reference month, the following
\* months are tried one at a time, each pass of the loop counting one
\* attempt and never more than 12; the result is the occurrence of the first
\* month in which the pattern resolves, and the reference date plus
\* months_interval months when it resolves in none; the search ends after at
\* most 12 passes for every input.
C13_BoundedMonthSearch ==
    /\ [] C13_SearchState
    /\ [][ (pc = "searching" /\ pc' = "searching")
              => call'.attempts = call.attempts + 1 ]_vars

\* C13 witness: a "sixth Friday" asked on 2024-01-31 resolves in no month;
\* after 12 further months the result is 2024-01-31 plus one month.
C13_Witness ==
    /\ Returned("week_pattern")
    /\ "attempts" \in DOMAIN call
    /\ call.anchor_week = 6 /\ call.anchor_weekday = 5
    /\ call.months_interval = 1
    /\ call.attempts = 12
    /\ MonthIndex(call.next_month_date) = MonthIndex(from_date) + 13
    /\ from_date = Date(2024, 1, 31)
    /\ result = Date(2024, 2, 29)

\* C15: after any sequence of add_chore and update_chore calls, every stored
\* chore that is anchored and weekly or biweekly has a non-empty
\* anchor_days_of_week with all values in 0..6, and every stored chore that
\* is anchored and monthly, bimonthly, quarterly or biannual has an
\* anchor_type with its fields in range (anchor_day_of_month in 1..31, or
\* anchor_week in 1..5 and anchor_weekday in 0..6).
C15_StoredAnchorsValid ==
    \A chore_id \in DOMAIN chores :
        LET chore == chores[chore_id]
        IN  /\ (/\ chore.recurrence_type = RECURRENCE_ANCHORED
                /\ chore.frequency \in WeeklyFamily)
               => /\ chore.anchor_days_of_week # NoneList
                  /\ chore.anchor_days_of_week # {}
                  /\ chore.anchor_days_of_week \subseteq 0 .. 6
            /\ (/\ chore.recurrence_type = RECURRENCE_ANCHORED
                /\ chore.frequency \in MonthlyFamily \ { FREQUENCY_YEARLY })
               => \/ /\ chore.anchor_type = ANCHOR_DAY_OF_MONTH
                     /\ chore.anchor_day_of_month \in 1 .. 31
                  \/ /\ chore.anchor_type = ANCHOR_WEEK_PATTERN
                     /\ chore.anchor_week \in 1 .. 5
                     /\ chore.anchor_weekday \in 0 .. 6

\* C16: an interval of 0 or below given to add_chore, or to update_chore of
\* a stored chore, makes the call raise ValueError.
C16_NonPositiveIntervalRejected ==
    /\ (/\ call.fn = "add_chore"
        /\ call.interval # None
        /\ call.interval <= 0)
       => result.raised = "ValueError"
    /\ (/\ call.fn = "update_chore"
        /\ call.chore_id \in DOMAIN chores
        /\ call.interval # None
        /\ call.interval <= 0)
       => result.raised = "ValueError"

\* C17: a call of update_chore that raises ValueError leaves every stored
\* chore exactly as it was before the call.
C17_UpdateFailsFast ==
    [][ (call'.fn = "update_chore" /\ result'.raised = "ValueError")
        => chores' = chores ]_vars

\* C18: for every chore and every window [start, end], generating the
\* chore's calendar events raises nothing, every pass of the loop that
\* advances to the window moves the due date on (so the loop ends), at
\* most 100 events are made, and every event lies within [start, end].
C18_CalendarEventsBounded ==
    call.fn = "_generate_chore_events"
    => /\ pc # "raised"
       /\ (/\ pc = "advance"
           /\ call.current_due # None
           /\ call.current_due < call.start)
          => calculate_next_due(call.current_due, call.frequency) # call.current_due
       /\ Len(call.events) <= 100
       /\ \A i \in 1 .. Len(call.events) :
              call.start <= call.events[i] /\ call.events[i] <= call.end

\* C19: async_complete_chore on a stored chore, on a day `today`: a chore
\* whose frequency is not once gets next_due =
\* calculate_next_due_for_chore(chore, today), a date after today, and
\* is_completed = FALSE; a once chore gets is_completed = TRUE and keeps its
\* next_due; either way last_completed is today, last_completed_by is the
\* user ("unknown" when none is given), and history grows by exactly one
\* entry, which is for that chore.
C19_CompleteChore ==
    [][ (/\ call'.fn = "async_complete_chore"
         /\ call'.chore_id \in DOMAIN chores)
        => \A before \in { chores[call'.chore_id] },
              after \in { chores'[call'.chore_id] } :
              /\ before.frequency # FREQUENCY_ONCE
                 => /\ after.next_due =
                           isoformat(calculate_next_due_for_chore(before, today))
                    /\ fromisoformat(after.next_due) > today
                    /\ after.is_completed = FALSE
              /\ before.frequency = FREQUENCY_ONCE
                 => /\ after.is_completed = TRUE
                    /\ after.next_due = before.next_due
              /\ after.last_completed = isoformat(today)
              /\ after.last_completed_by =
                     (IF call'.user_id = NoneStr THEN "unknown" ELSE call'.user_id)
              /\ Len(history') = Len(history) + 1
              /\ SubSeq(history', 1, Len(history)) = history
              /\ history'[Len(history')].chore_id = call'.chore_id
              /\ DOMAIN chores' = DOMAIN chores ]_vars

\* An anchored monthly chore (the 15th) added on 2024-01-30 and completed
\* the day after by alice is next due on 2024-02-15.
C19_Witness ==
    /\ call.fn = "async_complete_chore"
    /\ call.user_id = "alice"
    /\ "c1" \in DOMAIN chores
    /\ chores["c1"].frequency = FREQUENCY_MONTHLY
    /\ chores["c1"].recurrence_type = RECURRENCE_ANCHORED
    /\ chores["c1"].created_at = << 2024, 1, 30 >>
    /\ chores["c1"].last_completed = << 2024, 1, 31 >>
    /\ chores["c1"].last_completed_by = "alice"
    /\ chores["c1"].next_due = << 2024, 2, 15 >>
    /\ chores["c1"].is_completed = FALSE
    /\ Len(history) = 1

\* C20: async_skip_chore on a stored chore whose frequency is not once
\* replaces next_due by calculate_next_due_for_chore(chore, previous
\* next_due), a later date, and changes no other field of the chore, no
\* other chore and no history entry; so each of a run of skips moves the due
\* date forward.
C20_SkipChore ==
    [][ (/\ call'.fn = "async_skip_chore"
         /\ call'.chore_id \in DOMAIN chores
         /\ chores[call'.chore_id].frequency # FREQUENCY_ONCE)
        => \A before \in { chores[call'.chore_id] } :
           \A next_due \in { calculate_next_due_for_chore(
                                 before, fromisoformat(before.next_due)) } :
              /\ next_due # None
              /\ next_due > fromisoformat(before.next_due)
              /\ chores' = [ chores EXCEPT ![call'.chore_id] =
                                 [ before EXCEPT !.next_due = isoformat(next_due) ] ]
              /\ history' = history ]_vars

\* A weekly chore added on 2024-01-30 and completed that day has been
\* skipped twice: due 2024-02-06, then 02-13, now 02-20, the completion
\* record untouched.
C20_Witness ==
    /\ call.fn = "async_skip_chore"
    /\ "c1" \in DOMAIN chores
    /\ chores["c1"].frequency = FREQUENCY_WEEKLY
    /\ chores["c1"].recurrence_type = RECURRENCE_INTERVAL
    /\ chores["c1"].last_completed = << 2024, 1, 30 >>
    /\ chores["c1"].next_due = << 2024, 2, 20 >>
    /\ Len(history) = 1

\* C21: async_skip_chore on a stored chore of frequency once completes
\* without raising and leaves the chore a next_due that is a date.
C21_SkipOnceCompletes ==
    ( /\ call.fn = "async_skip_chore"
      /\ call.chore_id \in DOMAIN chores
      /\ chores[call.chore_id].frequency = FREQUENCY_ONCE )
    => /\ result.raised = NoneStr
       /\ chores[call.chore_id].next_due # NoneIso

\* C22: for every year, month, weekday code in 0..6 and ordinal in 1..5
\* get_nth_weekday_of_month returns a date; so for a week_pattern anchor
\* with such a weekday and ordinal the pattern resolves in the month
\* months_interval months after the reference month, the search loop runs
\* no iteration and takes no fallback, and the result is the pattern's date
\* in the reference month or in the month exactly months_interval later.
C22_ValidatedPatternResolves ==
    /\ ( Returned("get_nth_weekday_of_month") /\ call.n \in WEEK_ORDINALS
         /\ call.weekday \in WEEKDAYS )
       => /\ result # None
          /\ Year(result) = call.year
          /\ Month(result) = call.month
    /\ ( /\ Returned("calculate_next_anchored_monthly")
         /\ call.anchor_type = ANCHOR_WEEK_PATTERN
         /\ call.anchor_week \in WEEK_ORDINALS
         /\ call.anchor_weekday \in WEEKDAYS )
       => /\ PatternIn(0) # None
          /\ PatternIn(call.months_interval) # None
          /\ result \in { PatternIn(0), PatternIn(call.months_interval) }
          /\ result > from_date
          /\ MonthIndex(result) \in { MonthIndex(from_date),
                                       MonthIndex(from_date) + call.months_interval }

\* C22 witness: from 2024-01-30 the fifth (last) Monday, every month: the
\* last Monday of January 2024 is the 29th, already past, and February 2024
\* has four Mondays, the last one on the 26th.
C22_Witness ==
    /\ Returned("calculate_next_anchored_monthly")
    /\ from_date = Date(2024, 1, 30)
    /\ call.anchor_type = ANCHOR_WEEK_PATTERN
    /\ call.anchor_week = WEEK_LAST
    /\ call.anchor_weekday = WEEKDAY_SUNDAY + 1
    /\ call.months_interval = 1
    /\ result = Date(2024, 2, 26)

\* C23: completing a stored chore whose frequency is not once always moves
\* next_due strictly later than the next_due stored before the completion,
\* whatever the recurrence type and whether the completion is early, on time
\* or late.
C23_CompletionMovesDueLater ==
    [][ (/\ call'.fn = "async_complete_chore"
         /\ call'.chore_id \in DOMAIN chores
         /\ chores[call'.chore_id].frequency # FREQUENCY_ONCE)
        => fromisoformat(chores'[call'.chore_id].next_due)
               > fromisoformat(chores[call'.chore_id].next_due) ]_vars

\* C23 as amended: completing a stored chore whose frequency is not once
\* leaves a next_due strictly later than the day of completion, hence
\* strictly later than the previous next_due whenever that was not after
\* the day of completion (on time or late).
C23_CompletionMovesDueAfterToday ==
    [][ (/\ call'.fn = "async_complete_chore"
         /\ call'.chore_id \in DOMAIN chores
         /\ chores[call'.chore_id].frequency # FREQUENCY_ONCE)
        => \A before \in { fromisoformat(chores[call'.chore_id].next_due) },
              after \in { fromisoformat(chores'[call'.chore_id].next_due) } :
              /\ after > today
              /\ before <= today => after > before ]_vars

\* C23 witness: a weekly chore added on 2024-01-30 and due that day is
\* completed late, on 2024-01-31: the new next_due is 2024-02-07.
C23_Witness ==
    /\ call.fn = "async_complete_chore"
    /\ call.chore_id = "c1"
    /\ "c1" \in DOMAIN chores
    /\ chores["c1"].frequency = FREQUENCY_WEEKLY
    /\ chores["c1"].recurrence_type = RECURRENCE_INTERVAL
    /\ chores["c1"].interval = 1
    /\ chores["c1"].created_at = << 2024, 1, 30 >>
    /\ chores["c1"].last_completed = << 2024, 1, 31 >>
    /\ chores["c1"].next_due = << 2024, 2, 7 >>
    /\ today = Today0 + 1
    /\ Len(history) = 1

\* The ids of the chores in the lists of a refresh.
ListedIn(list) == { list[i].id : i \in DOMAIN list }
ListedByRoom(data) ==
    UNION { ListedIn(data.by_room[room_id]) : room_id \in DOMAIN data.by_room }

\* C24: a chore of frequency once with is_completed true keeps is_completed
\* true under every complete, skip, snooze and update that leaves it stored
\* with frequency once, and no refresh lists it in chores, due_today,
\* due_this_week, overdue or by_room.
C24_CompletedOnceTerminal ==
    [][ /\ \A id \in DOMAIN chores :
              ( /\ chores[id].frequency = FREQUENCY_ONCE
                /\ chores[id].is_completed
                /\ id \in DOMAIN chores'
                /\ chores'[id].frequency = FREQUENCY_ONCE )
              => chores'[id].is_completed
        /\ call'.fn = "_async_update_data" =>
              \A id \in DOMAIN chores' :
                 ( chores'[id].frequency = FREQUENCY_ONCE /\ chores'[id].is_completed )
                 => id \notin ListedIn(result'.value.chores)
                               \cup ListedIn(result'.value.due_today)
                               \cup ListedIn(result'.value.due_this_week)
                               \cup ListedIn(result'.value.overdue)
                               \cup ListedByRoom(result'.value) ]_vars

\* C24 witness: the one-off chore has been completed twice, renamed and
\* snoozed to the next day; the refresh lists the other chore only.
C24_Witness ==
    /\ call.fn = "_async_update_data"
    /\ chores["c1"].frequency = FREQUENCY_ONCE
    /\ chores["c1"].is_completed
    /\ chores["c1"].name = "Laundry"
    /\ chores["c1"].next_due = isoformat(Today0 + 1)
    /\ Len(history) = 2
    /\ ListedIn(result.value.chores) = { "c2" }
    /\ ListedByRoom(result.value) = { "c2" }
    /\ result.value.total_chores = 1

\* C25: after a refresh, a stored chore that is not completed is in overdue
\* iff next_due < today, in due_today iff next_due <= today and in
\* due_this_week iff today < next_due <= today + 7; overdue is a subset of
\* due_today, due_today and due_this_week are disjoint, each count is the
\* length of its list and has_overdue tells whether overdue is non-empty.
C25_RefreshCategories ==
    call.fn = "_async_update_data" =>
       \A data \in { result.value } :
          /\ \A id \in DOMAIN chores :
                ~ chores[id].is_completed =>
                   \A next_due \in { fromisoformat(chores[id].next_due) } :
                      /\ id \in ListedIn(data.overdue) <=> next_due < today
                      /\ id \in ListedIn(data.due_today) <=> next_due <= today
                      /\ id \in ListedIn(data.due_this_week)
                            <=> (today < next_due /\ next_due <= today + 7)
          /\ ListedIn(data.overdue) \subseteq ListedIn(data.due_today)
          /\ ListedIn(data.due_today) \cap ListedIn(data.due_this_week) = {}
          /\ data.overdue_count = Len(data.overdue)
          /\ data.due_today_count = Len(data.due_today)
          /\ data.due_this_week_count = Len(data.due_this_week)
          /\ data.overdue_count = Cardinality(ListedIn(data.overdue))
          /\ data.has_overdue <=> Len(data.overdue) > 0

\* C25 witness: on 2024-01-31 the first chore, weekly, is due a week later,
\* on the last day of the window, and the second is due that day: one chore
\* in due_today, one in due_this_week, none overdue.
C25_Witness ==
    /\ call.fn = "_async_update_data"
    /\ today = Today0 + 1
    /\ DOMAIN chores = { "c1", "c2" }
    /\ chores["c1"].next_due = isoformat(Today0 + 8)
    /\ chores["c2"].next_due = isoformat(Today0 + 1)
    /\ ListedIn(result.value.due_today) = { "c2" }
    /\ ListedIn(result.value.due_this_week) = { "c1" }
    /\ ~ result.value.has_overdue

\* C26: _async_send_due_notification, when there is a notify target, sends
\* for every configured number of days k and every active chore with
\* next_due = today + k a notification that lists the chore.
C26_DueChoresNotified ==
    ( /\ call.fn = "_async_send_due_notification"
      /\ \/ Len(call.configured_targets) > 0
         \/ \E service \in Elements(call.services) : startswith(service, "mobile_app_") )
    => \A days_ahead \in Elements(call.days_before_list) :
          \A chore \in Elements(active_chores) :
             fromisoformat(chore.next_due) = today + days_ahead
             => \E sent \in result.value : chore.id \in ListedIn(sent.chores)

\* An argument of update_chore that the call leaves at its default, None.
Omitted(req, field) ==
    field \notin DOMAIN UpdateDefaults \/ req[field] = UpdateDefaults[field]

\* C28: update_chore on a stored chore changes only the fields whose
\* argument is supplied: every field whose argument is omitted, assigned_to
\* included, keeps its value, and every other chore, every room and the
\* history are unchanged.
C28_UpdateChangesOnlySupplied ==
    [][ (call'.fn = "update_chore" /\ call'.chore_id \in DOMAIN chores)
        => /\ DOMAIN chores' = DOMAIN chores
           /\ DOMAIN chores'[call'.chore_id] = DOMAIN chores[call'.chore_id]
           /\ \A field \in DOMAIN chores[call'.chore_id] :
                 Omitted(call', field)
                 => chores'[call'.chore_id][field] = chores[call'.chore_id][field]
           /\ \A other \in DOMAIN chores \ { call'.chore_id } :
                 chores'[other] = chores[other]
           /\ rooms' = rooms
           /\ history' = history ]_vars

\* C28 as amended: update_chore on a stored chore always sets assigned_to
\* to its argument, None when it is omitted, unless the call is rejected for
\* its frequency, room id or recurrence type; of the other fields it changes
\* only those whose argument is supplied, and every other chore, every room
\* and the history are unchanged.
C28_UpdateSetsAssignee ==
    [][ (call'.fn = "update_chore" /\ call'.chore_id \in DOMAIN chores)
        => /\ DOMAIN chores' = DOMAIN chores
           /\ DOMAIN chores'[call'.chore_id] = DOMAIN chores[call'.chore_id]
           /\ \A field \in DOMAIN chores[call'.chore_id] \ { "assigned_to" } :
                 Omitted(call', field)
                 => chores'[call'.chore_id][field] = chores[call'.chore_id][field]
           /\ IF update_chore_raises_early(call')
              THEN chores'[call'.chore_id].assigned_to
                       = chores[call'.chore_id].assigned_to
              ELSE chores'[call'.chore_id].assigned_to = call'.assigned_to
           /\ \A other \in DOMAIN chores \ { call'.chore_id } :
                 chores'[other] = chores[other]
           /\ rooms' = rooms
           /\ history' = history ]_vars

\* C28 witness: the first chore, completed by alice, has been renamed by an
\* update that names no assignee: it is called Laundry and assigned to
\* nobody, and the second chore is as it was added.
C28_Witness ==
    /\ call.fn = "update_chore"
    /\ call.chore_id = "c1"
    /\ call.name = "Laundry"
    /\ Omitted(call, "assigned_to")
    /\ Omitted(call, "interval")
    /\ chores["c1"].name = "Laundry"
    /\ chores["c1"].assigned_to = NoneStr
    /\ chores["c1"].last_completed_by = "alice"
    /\ chores["c2"] = add_chore_dict(Bystander, "c2")

\* The name that the room list of a refresh gives a room id.
NameInRoomList(all_rooms, room_id) ==
    IF \E i \in DOMAIN all_rooms : all_rooms[i].id = room_id
    THEN all_rooms[CHOOSE i \in DOMAIN all_rooms : all_rooms[i].id = room_id].name
    ELSE "Unknown Room"

\* C29: after every refresh the room_name of each active chore is the name
\* that the room list of that refresh (areas and custom rooms) gives the
\* chore's room_id, or 'Unknown Room' when the list has no such room,
\* however custom rooms are added, updated and removed and the host adds
\* and renames areas in between.
C29_RoomNamesCurrent ==
    call.fn = "_async_update_data" =>
       \A i \in DOMAIN result.value.chores :
          result.value.chores[i].room_name
              = NameInRoomList(result.value.rooms, result.value.chores[i].room_id)

\* C30: the history never holds more than MAX_HISTORY_ENTRIES entries; a
\* completion of a stored chore appends one entry, for that chore and that
\* day, at the end; when that exceeds the limit the oldest entries are
\* dropped, so that the history is the most recent entries in their
\* original order; no other step changes the history.
C30_HistoryCapped ==
    [][ /\ Len(history') <= MAX_HISTORY_ENTRIES
        /\ IF call'.fn = "async_complete_chore" /\ call'.chore_id \in DOMAIN chores
           THEN \A entry \in { history'[Len(history')] } :
                \A appended \in { Append(history, entry) } :
                   /\ entry.chore_id = call'.chore_id
                   /\ entry.completed_at = isoformat(today)
                   /\ entry.completed_by
                          = (IF call'.user_id = NoneStr THEN "unknown" ELSE call'.user_id)
                   /\ Len(history') = (IF Len(history) < MAX_HISTORY_ENTRIES
                                       THEN Len(history) + 1 ELSE MAX_HISTORY_ENTRIES)
                   /\ history' = SubSeq(appended, Len(appended) - Len(history') + 1,
                                        Len(appended))
           ELSE history' = history ]_vars

\* C30 witness: two completions on 2024-01-30 have pushed the history over
\* its limit: it holds MAX_HISTORY_ENTRIES entries, the oldest now the one
\* of 998 days before, the two newest those of 2024-01-30.
C30_Witness ==
    /\ call.fn = "async_complete_chore"
    /\ Len(history) = MAX_HISTORY_ENTRIES
    /\ history[1].completed_at = isoformat(Today0 - (MAX_HISTORY_ENTRIES - 2))
    /\ history[MAX_HISTORY_ENTRIES - 2].completed_at = isoformat(Today0 - 1)
    /\ history[MAX_HISTORY_ENTRIES - 1].completed_at = isoformat(Today0)
    /\ history[MAX_HISTORY_ENTRIES].completed_at = isoformat(Today0)
    /\ history[MAX_HISTORY_ENTRIES].completed_by = "guest"

\* C27: no update is lost by the save logic: whenever no save task is
\* pending or running and no immediate save is suspended, the persisted data
\* equal the data in memory and _dirty is false; and when
\* async_flush_debounced_save has returned, no change remains that is
\* neither saved nor being saved.
C27_NoUpdateLost ==
    /\ ( ~ task_not_done /\ Len(writing) = 0 )
       => /\ persisted = StoreData(chores, history, rooms)
          /\ ~ dirty
    /\ ( call.fn = "async_flush_debounced_save" /\ call.returned /\ Len(writing) = 0 )
       => persisted = StoreData(chores, history, rooms)

=============================================================================
